---- MODULE Spec2Model ----
(***************************************************************************)
(* Model of the schema-validated record store of the ChocAn simulator:     *)
(* choc_an_simulator/schemas.py (TableInfo) and                            *)
(* choc_an_simulator/database_management/{load_records,edit_records,       *)
(* _write_records}.py.                                                     *)
(*                                                                         *)
(* A cell value is a record [t, v]: t is the Python-side kind of the value *)
(* ("int", "float", "str", or "null" for the NaN that pandas fills in), v  *)
(* its payload (an integer for numbers, a string for text).  A DataFrame   *)
(* is [cols, rows]: cols the ordered column labels, rows a sequence of     *)
(* functions from the labels to cell values.  The persisted parquet file   *)
(* is [exists, cols, rows].                                                *)
(***************************************************************************)
EXTENDS Integers, Sequences, FiniteSets, TLC

VARIABLES file, prev, last, calls

vars == <<file, prev, last, calls>>

(***************************************************************************)
(* Bounds of the explored inputs.                                          *)
(***************************************************************************)
MaxRows == 3
MaxBatch == 2
MaxChanges == 2

(***************************************************************************)
(* Cell values.                                                            *)
(***************************************************************************)
IntVal(n) == [t |-> "int", v |-> n]
FloatVal(n) == [t |-> "float", v |-> n]
StrVal(s) == [t |-> "str", v |-> s]
NullVal == [t |-> "null", v |-> 0]
BoolVal(b) == [t |-> "bool", v |-> b]
DateVal(d) == [t |-> "date", v |-> d]
BytesVal(s) == [t |-> "bytes", v |-> s]

IsNum(x) == x.t \in {"int", "float"}

\* Python ==  between two scalars: numbers compare by magnitude (1 == 1.0),
\* text by content, a number never equals text, NaN equals nothing.
PyEq(a, b) ==
    \/ IsNum(a) /\ IsNum(b) /\ a.v = b.v
    \/ a.t = "str" /\ b.t = "str" /\ a.v = b.v

\* Number of decimal digits of a natural number.
RECURSIVE Digits(_)
Digits(n) == IF n < 10 THEN 1 ELSE 1 + Digits(n \div 10)

\* len(str(value))
StrLen(x) ==
    CASE x.t = "str" -> Len(x.v)
      [] x.t = "int" -> IF x.v < 0 THEN 1 + Digits(-x.v) ELSE Digits(x.v)
      [] x.t = "float" -> 2 + (IF x.v < 0 THEN 1 + Digits(-x.v) ELSE Digits(x.v))
      [] OTHER -> 3

(***************************************************************************)
(* Sequence helpers.                                                       *)
(***************************************************************************)
Range(s) == {s[i] : i \in DOMAIN s}

RECURSIVE SelectRows(_, _)
SelectRows(rows, keep) ==
    IF rows = <<>> THEN <<>>
    ELSE (IF keep[1] THEN <<Head(rows)>> ELSE <<>>)
         \o SelectRows(Tail(rows), Tail(keep))

\* The first element of a sequence of outcomes that is not "ok".
RECURSIVE FirstError(_)
FirstError(errs) ==
    IF errs = <<>> THEN "ok"
    ELSE IF Head(errs) # "ok" THEN Head(errs)
    ELSE FirstError(Tail(errs))

(***************************************************************************)
(* schemas.py: TableInfo                                                   *)
(***************************************************************************)
\* The table description the store's tests run against:
\* schema [("ID", int64), ("value", float64)], numeric_limits value: range(0, 3)
TEST_TABLE_INFO ==
    [name |-> "test",
     names |-> <<"ID", "value">>,
     types |-> [ID |-> "int64", value |-> "float64"],
     character_limits |-> [c \in {} |-> [start |-> 0, stop |-> 0]],
     numeric_limits |-> [c \in {"value"} |-> [start |-> 0, stop |-> 3]]]

\* The description of the same table "test" with other columns:
\* schema [("mismatched", int64), ("records", float64)], no limits.
TEST_TABLE_INFO_WRONG_COLUMNS ==
    [name |-> "test",
     names |-> <<"mismatched", "records">>,
     types |-> [mismatched |-> "int64", records |-> "float64"],
     character_limits |-> [c \in {} |-> [start |-> 0, stop |-> 0]],
     numeric_limits |-> [c \in {} |-> [start |-> 0, stop |-> 0]]]

\* The service directory: service_id int64 of 6 characters, service_name
\* string of 1 to 20 characters, price_dollars int64, price_cents int64 with
\* numeric_limits price_cents: range(1, 99).
PROVIDER_DIRECTORY_INFO ==
    [name |-> "provider_directory",
     names |-> <<"service_id", "service_name", "price_dollars", "price_cents">>,
     types |-> [service_id |-> "int64", service_name |-> "string",
                price_dollars |-> "int64", price_cents |-> "int64"],
     character_limits |-> [service_id |-> [start |-> 6, stop |-> 6],
                           service_name |-> [start |-> 1, stop |-> 20]],
     numeric_limits |-> [price_cents |-> [start |-> 1, stop |-> 99]]]

\* The description the schema tests run against: schema [("number", uint32),
\* ("text", string)], character_limits number: range(3, 5), text:
\* range(3, 10), numeric_limits number: range(200, 50000).
TEST_INFO ==
    [name |-> "test",
     names |-> <<"number", "text">>,
     types |-> [number |-> "uint32", text |-> "string"],
     character_limits |-> [number |-> [start |-> 3, stop |-> 5],
                           text |-> [start |-> 3, stop |-> 10]],
     numeric_limits |-> [number |-> [start |-> 200, stop |-> 50000]]]

\* Variant: only the character limits are looked up in the schema.
post_init_character_only(ti) ==
    IF \E col_name \in DOMAIN ti.character_limits : col_name \notin Range(ti.names)
    THEN "KeyError"
    ELSE "ok"

\* __post_init__: every key of character_limits, then every key of
\* numeric_limits, must be a field of the schema.
post_init(ti) ==
    IF \E col_name \in DOMAIN ti.character_limits : col_name \notin Range(ti.names)
    THEN "KeyError"
    ELSE IF \E col_name \in DOMAIN ti.numeric_limits : col_name \notin Range(ti.names)
    THEN "KeyError"
    ELSE "ok"

\* TableInfo(name, schema, character_limits, numeric_limits): the dataclass
\* sets the fields and runs __post_init__; when that raises the caller gets
\* no object.
NewTableInfo(name, names, types, character_limits, numeric_limits) ==
    LET ti == [name |-> name, names |-> names, types |-> types,
               character_limits |-> character_limits,
               numeric_limits |-> numeric_limits]
    IN [err |-> post_init(ti),
        ret |-> IF post_init(ti) = "ok" THEN ti ELSE "none"]

\* The members: member_id int64 of 9 characters, name, address, city, state
\* as strings with character limits, zipcode int64 of 5 characters,
\* suspended bool.
MEMBER_INFO ==
    [name |-> "members",
     names |-> <<"member_id", "name", "address", "city", "state", "zipcode",
                 "suspended">>,
     types |-> [member_id |-> "int64", name |-> "string", address |-> "string",
                city |-> "string", state |-> "string", zipcode |-> "int64",
                suspended |-> "bool"],
     character_limits |-> [member_id |-> [start |-> 9, stop |-> 9],
                           name |-> [start |-> 1, stop |-> 25],
                           address |-> [start |-> 1, stop |-> 25],
                           city |-> [start |-> 1, stop |-> 14],
                           state |-> [start |-> 2, stop |-> 2],
                           zipcode |-> [start |-> 5, stop |-> 5]],
     numeric_limits |-> [c \in {} |-> [start |-> 0, stop |-> 0]]]

\* The providers and managers: id int64 of 9 characters, type int64 within
\* range(0, 1) (0 = manager, 1 = provider), name, address, city, state,
\* zipcode as for the members, password_hash binary.
USER_INFO ==
    [name |-> "providers",
     names |-> <<"id", "type", "name", "address", "city", "state", "zipcode",
                 "password_hash">>,
     types |-> [id |-> "int64", type |-> "int64", name |-> "string",
                address |-> "string", city |-> "string", state |-> "string",
                zipcode |-> "int64", password_hash |-> "binary"],
     character_limits |-> [id |-> [start |-> 9, stop |-> 9],
                           name |-> [start |-> 1, stop |-> 25],
                           address |-> [start |-> 1, stop |-> 25],
                           city |-> [start |-> 1, stop |-> 14],
                           state |-> [start |-> 2, stop |-> 2],
                           zipcode |-> [start |-> 5, stop |-> 5]],
     numeric_limits |-> [type |-> [start |-> 0, stop |-> 1]]]

\* The service log: entry_datetime_utc date64, service_date_utc date32,
\* provider_id, member_id, service_id int64 with the character limits of
\* the ids they refer to, comments string.
SERVICE_LOG_INFO ==
    [name |-> "service_log",
     names |-> <<"entry_datetime_utc", "service_date_utc", "provider_id",
                 "member_id", "service_id", "comments">>,
     types |-> [entry_datetime_utc |-> "date64", service_date_utc |-> "date32",
                provider_id |-> "int64", member_id |-> "int64",
                service_id |-> "int64", comments |-> "string"],
     character_limits |-> [provider_id |-> USER_INFO.character_limits["id"],
                           member_id |-> MEMBER_INFO.character_limits["member_id"],
                           service_id |->
                               PROVIDER_DIRECTORY_INFO.character_limits["service_id"]],
     numeric_limits |-> [c \in {} |-> [start |-> 0, stop |-> 0]]]

index_col(ti) == ti.names[1]

check_columns(ti, columns) ==
    IF Range(ti.names) # Range(columns) THEN "KeyError" ELSE "ok"

check_field_exists(ti, field_name) ==
    IF field_name \notin Range(ti.names) THEN "KeyError" ELSE "ok"

\* pa.array([value], type=field.type): a number converts to int64 and to
\* float64, a number that is not negative to uint32, text only to string,
\* True and False only to bool, a date or datetime object to date32 and
\* date64 (text is not parsed), bytes to binary; a null converts to every
\* type.  (No negative number is checked against a
\* uint32 field here.)
check_type(ti, field_name, value) ==
    LET ty == ti.types[field_name] IN
    IF value.t = "null" THEN "ok"
    ELSE IF ty \in {"int64", "uint32", "float64"}
         THEN (IF IsNum(value) THEN "ok" ELSE "TypeError")
    ELSE IF ty = "bool"
         THEN (IF value.t = "bool" THEN "ok" ELSE "TypeError")
    ELSE IF ty \in {"date32", "date64"}
         THEN (IF value.t = "date" THEN "ok" ELSE "TypeError")
    ELSE IF ty = "binary"
         THEN (IF value.t = "bytes" THEN "ok" ELSE "TypeError")
         ELSE (IF value.t = "str" THEN "ok" ELSE "TypeError")

\* Variant: the limit is read as the half-open range(start, stop).
check_character_limit_half_open(ti, field_name, value) ==
    IF field_name \notin DOMAIN ti.character_limits THEN "ok"
    ELSE LET val_len == StrLen(value)
             limit_range == ti.character_limits[field_name]
         IN IF (val_len < limit_range.start) \/ (val_len >= limit_range.stop)
            THEN "ArithmeticError" ELSE "ok"

check_character_limit(ti, field_name, value) ==
    IF field_name \notin DOMAIN ti.character_limits THEN "ok"
    ELSE LET val_len == StrLen(value)
             limit_range == ti.character_limits[field_name]
         IN IF (val_len < limit_range.start) \/ (val_len > limit_range.stop)
            THEN "ArithmeticError" ELSE "ok"

check_numeric_limit(ti, field_name, value) ==
    IF field_name \notin DOMAIN ti.numeric_limits THEN "ok"
    ELSE LET limit_range == ti.numeric_limits[field_name] IN
         IF value.t = "str" THEN "TypeError"
         ELSE IF value.t = "null" THEN "ok"
         ELSE IF (value.v < limit_range.start) \/ (value.v > limit_range.stop)
              THEN "ArithmeticError" ELSE "ok"

\* Variant: the limits are checked before the type.
check_field_limits_first(ti, value, field_name) ==
    IF check_field_exists(ti, field_name) # "ok" THEN "KeyError"
    ELSE FirstError(<<check_character_limit(ti, field_name, value),
                      check_numeric_limit(ti, field_name, value),
                      check_type(ti, field_name, value)>>)

check_field(ti, value, field_name) ==
    IF check_field_exists(ti, field_name) # "ok" THEN "KeyError"
    ELSE FirstError(<<check_type(ti, field_name, value),
                      check_character_limit(ti, field_name, value),
                      check_numeric_limit(ti, field_name, value)>>)

\* Variant: the fields are checked before the columns are compared.
check_series_fields_first(ti, cols, row) ==
    LET flds == FirstError([i \in DOMAIN cols |->
                               check_field(ti, row[cols[i]], cols[i])])
    IN IF flds # "ok" THEN flds
       ELSE check_columns(ti, cols)

check_series(ti, cols, row) ==
    IF check_columns(ti, cols) # "ok" THEN "KeyError"
    ELSE FirstError([i \in DOMAIN cols |-> check_field(ti, row[cols[i]], cols[i])])

\* data.apply(check_series, axis=1): rows are checked in order; a frame with
\* no rows is not checked at all.
check_dataframe(ti, data) ==
    FirstError([i \in DOMAIN data.rows |-> check_series(ti, data.cols, data.rows[i])])

(***************************************************************************)
(* pandas / pyarrow primitives the store is written with.                  *)
(***************************************************************************)
NoFile == [exists |-> FALSE, cols |-> <<>>, rows |-> <<>>]

\* records.iloc[:, 0]: the values of the frame's first column, by position.
FirstColumn(records) ==
    [i \in DOMAIN records.rows |-> records.rows[i][records.cols[1]]]

\* records[name]: the values of the column with that label.
Column(records, name) ==
    [i \in DOMAIN records.rows |-> records.rows[i][name]]

\* Variant: b's rows are placed before a's.
ConcatNewFirst(a, b) ==
    LET extra == SelectSeq(b.cols, LAMBDA c : c \notin Range(a.cols))
        cols == a.cols \o extra
        Fill(row) == [c \in Range(cols) |->
                         IF c \in DOMAIN row THEN row[c] ELSE NullVal]
    IN [cols |-> cols,
        rows |-> [i \in DOMAIN b.rows |-> Fill(b.rows[i])]
                 \o [i \in DOMAIN a.rows |-> Fill(a.rows[i])]]

\* pd.concat([a, b]): a's rows then b's rows; the columns are a's labels
\* followed by those of b's that a lacks, a missing cell is NaN.
Concat(a, b) ==
    LET extra == SelectSeq(b.cols, LAMBDA c : c \notin Range(a.cols))
        cols == a.cols \o extra
        Fill(row) == [c \in Range(cols) |->
                         IF c \in DOMAIN row THEN row[c] ELSE NullVal]
    IN [cols |-> cols,
        rows |-> [i \in DOMAIN a.rows |-> Fill(a.rows[i])]
                 \o [i \in DOMAIN b.rows |-> Fill(b.rows[i])]]

\* Conversion of one cell to the arrow type of its column.
Cast(ty, x) ==
    IF ~IsNum(x) THEN x
    ELSE IF ty = "int64" THEN IntVal(x.v)
    ELSE IF ty = "float64" THEN FloatVal(x.v)
    ELSE x

\* records.to_parquet(path, schema=table_info.schema): the columns named by
\* the schema are taken from the frame, in schema order, converted to the
\* schema's types; a schema column the frame lacks is a KeyError.
ToParquet(ti, records) ==
    IF ~(Range(ti.names) \subseteq Range(records.cols))
    THEN [err |-> "KeyError", file |-> NoFile]
    ELSE [err |-> "ok",
          file |-> [exists |-> TRUE,
                    cols |-> ti.names,
                    rows |-> [i \in DOMAIN records.rows |->
                                 [c \in Range(ti.names) |->
                                     Cast(ti.types[c], records.rows[i][c])]]]]

\* pd.read_parquet(path) of an existing file.
ReadParquet(f) == [cols |-> f.cols, rows |-> f.rows]

\* pa.Table.from_pylist([], schema=table_info.schema).to_pandas()
EmptyFrame(ti) == [cols |-> ti.names, rows |-> <<>>]

(***************************************************************************)
(* database_management/load_records.py                                     *)
(***************************************************************************)
\* Variant: a missing file is reported as an error.
load_all_records_from_file_strict(ti, f) ==
    IF ~f.exists THEN [err |-> "FileNotFoundError", records |-> EmptyFrame(ti)]
    ELSE LET records == ReadParquet(f) IN
         [err |-> check_dataframe(ti, records), records |-> records]

load_all_records_from_file(ti, f) ==
    IF ~f.exists THEN [err |-> "ok", records |-> EmptyFrame(ti)]
    ELSE LET records == ReadParquet(f) IN
         [err |-> check_dataframe(ti, records), records |-> records]

(***************************************************************************)
(* database_management/_write_records.py                                   *)
(***************************************************************************)
\* Variant: the rows are appended to the file's rows instead of replacing
\* them.
overwrite_records_to_file_appending(ti, records, f) ==
    LET chk == check_dataframe(ti, records)
        wr == ToParquet(ti, records)
    IN IF chk # "ok" THEN [err |-> chk, file |-> f]
       ELSE IF wr.err # "ok" THEN [err |-> wr.err, file |-> f]
       ELSE [err |-> "ok", file |-> [wr.file EXCEPT !.rows = f.rows \o @]]

\* Variant: the frame is written without being checked.
overwrite_records_to_file_unchecked(ti, records, f) ==
    LET wr == ToParquet(ti, records)
    IN IF wr.err # "ok" THEN [err |-> wr.err, file |-> f]
       ELSE [err |-> "ok", file |-> wr.file]

\* Variant: the frame is written before it is checked.
overwrite_records_to_file_writing_first(ti, records, f) ==
    LET chk == check_dataframe(ti, records)
        wr == ToParquet(ti, records)
    IN IF wr.err # "ok" THEN [err |-> wr.err, file |-> f]
       ELSE IF chk # "ok" THEN [err |-> chk, file |-> wr.file]
       ELSE [err |-> "ok", file |-> wr.file]

\* Result: the error raised ("ok" if none) and the file afterwards.
overwrite_records_to_file(ti, records, f) ==
    LET chk == check_dataframe(ti, records)
        wr == ToParquet(ti, records)
    IN IF chk # "ok" THEN [err |-> chk, file |-> f]
       ELSE IF wr.err # "ok" THEN [err |-> wr.err, file |-> f]
       ELSE [err |-> "ok", file |-> wr.file]

(***************************************************************************)
(* database_management/edit_records.py                                     *)
(***************************************************************************)
\* col_a.isin(col_b).any()
any_duplicate_values(col_a, col_b) ==
    \E i \in DOMAIN col_a : \E j \in DOMAIN col_b : PyEq(col_a[i], col_b[j])

\* Variant: the duplicate check runs before the schema check.
add_records_to_file_duplicates_first(ti, records, f) ==
    LET ld == load_all_records_from_file(ti, f)
        existing_records == ld.records
        chk == check_dataframe(ti, records)
        ow == overwrite_records_to_file(ti, Concat(existing_records, records), f)
    IN IF ld.err # "ok" THEN [err |-> ld.err, file |-> f]
       ELSE IF any_duplicate_values(FirstColumn(existing_records),
                                    FirstColumn(records))
            THEN [err |-> "ValueError", file |-> f]
       ELSE IF chk # "ok" THEN [err |-> chk, file |-> f]
       ELSE ow

add_records_to_file(ti, records, f) ==
    LET ld == load_all_records_from_file(ti, f)
        existing_records == ld.records
        chk == check_dataframe(ti, records)
        ow == overwrite_records_to_file(ti, Concat(existing_records, records), f)
    IN IF ld.err # "ok" THEN [err |-> ld.err, file |-> f]
       ELSE IF chk # "ok" THEN [err |-> chk, file |-> f]
       ELSE IF any_duplicate_values(FirstColumn(existing_records),
                                    FirstColumn(records))
            THEN [err |-> "ValueError", file |-> f]
       ELSE ow

\* The first row whose first column equals index (a copy of it), if any.
get_row_by_index(records, index) ==
    LET col == FirstColumn(records)
        rows == SelectRows(records.rows, [i \in DOMAIN col |-> PyEq(col[i], index)])
    IN IF rows = <<>> THEN [found |-> FALSE, row |-> <<>>]
       ELSE [found |-> TRUE, row |-> rows[1]]

\* check_field, then row[field_name] = updated_value.
validate_and_update_field(row, field_name, updated_value, ti) ==
    LET chk == check_field(ti, updated_value, field_name) IN
    IF chk # "ok" THEN [err |-> chk, row |-> row]
    ELSE [err |-> "ok", row |-> [row EXCEPT ![field_name] = updated_value]]

\* The loop over field_updates.items(), in insertion order.
RECURSIVE UpdateFields(_, _, _)
UpdateFields(row, field_updates, ti) ==
    IF field_updates = <<>> THEN [err |-> "ok", row |-> row]
    ELSE LET r == validate_and_update_field(row, Head(field_updates)[1],
                                            Head(field_updates)[2], ti)
         IN IF r.err # "ok" THEN r
            ELSE UpdateFields(r.row, Tail(field_updates), ti)

\* row is the copy get_row_by_index made (records.loc[mask].iloc[0]); the
\* assignments go to the copy, and the frame that is returned is records.
validate_and_update_fields(records, index, field_updates, ti) ==
    LET got == get_row_by_index(records, index)
        upd == UpdateFields(got.row, field_updates, ti)
    IN IF ~got.found THEN [err |-> "IndexError", records |-> records]
       ELSE IF upd.err # "ok" THEN [err |-> upd.err, records |-> records]
       ELSE [err |-> "ok", records |-> records]

\* records with the first row whose first column equals index replaced.
ReplaceRow(records, index, row) ==
    LET col == FirstColumn(records)
        hits == {i \in DOMAIN col : PyEq(col[i], index)}
        first == CHOOSE i \in hits : \A j \in hits : i <= j
    IN IF hits = {} THEN records
       ELSE [records EXCEPT !.rows[first] = row]

\* Variant: the fields are written through to the frame and the frame is
\* saved whether or not a later field was rejected.
update_record_saving_partial(index, ti, kwargs, f) ==
    LET ld == load_all_records_from_file(ti, f)
        got == get_row_by_index(ld.records, index)
        upd == UpdateFields(got.row, kwargs, ti)
        wr == ToParquet(ti, ReplaceRow(ld.records, index, upd.row))
    IN IF Len(kwargs) = 0 THEN [err |-> "AssertionError", file |-> f, ret |-> "none"]
       ELSE IF ld.err # "ok" THEN [err |-> ld.err, file |-> f, ret |-> "none"]
       ELSE IF ~got.found THEN [err |-> "IndexError", file |-> f, ret |-> "none"]
       ELSE IF upd.err # "ok" THEN [err |-> upd.err, file |-> wr.file, ret |-> "none"]
       ELSE [err |-> "ok", file |-> wr.file, ret |-> upd.row]

\* Variant: the field changes are validated before the row is looked up.
update_record_validating_first(index, ti, kwargs, f) ==
    LET ld == load_all_records_from_file(ti, f)
        chk == FirstError([k \in DOMAIN kwargs |->
                              check_field(ti, kwargs[k][2], kwargs[k][1])])
        vu == validate_and_update_fields(ld.records, index, kwargs, ti)
        ow == overwrite_records_to_file(ti, vu.records, f)
    IN IF Len(kwargs) = 0 THEN [err |-> "AssertionError", file |-> f, ret |-> "none"]
       ELSE IF ld.err # "ok" THEN [err |-> ld.err, file |-> f, ret |-> "none"]
       ELSE IF chk # "ok" THEN [err |-> chk, file |-> f, ret |-> "none"]
       ELSE IF vu.err # "ok" THEN [err |-> vu.err, file |-> f, ret |-> "none"]
       ELSE IF ow.err # "ok" THEN [err |-> ow.err, file |-> f, ret |-> "none"]
       ELSE [err |-> "ok", file |-> ow.file,
             ret |-> get_row_by_index(vu.records, index).row]

\* Variant: the frame is saved with the updated row moved to the front.
update_record_row_first(index, ti, kwargs, f) ==
    LET ld == load_all_records_from_file(ti, f)
        vu == validate_and_update_fields(ld.records, index, kwargs, ti)
        col == FirstColumn(vu.records)
        hit == [i \in DOMAIN col |-> PyEq(col[i], index)]
        moved == [vu.records EXCEPT
                     !.rows = SelectRows(vu.records.rows, hit)
                              \o SelectRows(vu.records.rows,
                                     [i \in DOMAIN col |-> ~hit[i]])]
        ow == overwrite_records_to_file(ti, moved, f)
    IN IF Len(kwargs) = 0 THEN [err |-> "AssertionError", file |-> f, ret |-> "none"]
       ELSE IF ld.err # "ok" THEN [err |-> ld.err, file |-> f, ret |-> "none"]
       ELSE IF vu.err # "ok" THEN [err |-> vu.err, file |-> f, ret |-> "none"]
       ELSE IF ow.err # "ok" THEN [err |-> ow.err, file |-> f, ret |-> "none"]
       ELSE [err |-> "ok", file |-> ow.file,
             ret |-> get_row_by_index(vu.records, index).row]

update_record(index, ti, kwargs, f) ==
    LET ld == load_all_records_from_file(ti, f)
        vu == validate_and_update_fields(ld.records, index, kwargs, ti)
        ow == overwrite_records_to_file(ti, vu.records, f)
    IN IF Len(kwargs) = 0 THEN [err |-> "AssertionError", file |-> f, ret |-> "none"]
       ELSE IF ld.err # "ok" THEN [err |-> ld.err, file |-> f, ret |-> "none"]
       ELSE IF vu.err # "ok" THEN [err |-> vu.err, file |-> f, ret |-> "none"]
       ELSE IF ow.err # "ok" THEN [err |-> ow.err, file |-> f, ret |-> "none"]
       ELSE [err |-> "ok", file |-> ow.file,
             ret |-> get_row_by_index(vu.records, index).row]

\* Variant: only the first row with the index is dropped.
remove_record_first_match(index, ti, f) ==
    LET ld == load_all_records_from_file(ti, f)
        col == Column(ld.records, index_col(ti))
        hits == {i \in DOMAIN col : PyEq(col[i], index)}
        first == CHOOSE i \in hits : \A j \in hits : i <= j
        records == [cols |-> ld.records.cols,
                    rows |-> SelectRows(ld.records.rows,
                                [i \in DOMAIN col |-> i # first])]
        ow == overwrite_records_to_file(ti, records, f)
    IN IF ld.err # "ok" THEN [err |-> ld.err, file |-> f, ret |-> "none"]
       ELSE IF index_col(ti) \notin Range(ld.records.cols)
            THEN [err |-> "KeyError", file |-> f, ret |-> "none"]
       ELSE IF hits = {} THEN [err |-> "ok", file |-> f, ret |-> FALSE]
       ELSE IF ow.err # "ok" THEN [err |-> ow.err, file |-> f, ret |-> "none"]
       ELSE [err |-> "ok", file |-> ow.file, ret |-> TRUE]

\* Variant: the frame is saved even when no row was dropped.
remove_record_always_saving(index, ti, f) ==
    LET ld == load_all_records_from_file(ti, f)
        col == Column(ld.records, index_col(ti))
        records == [cols |-> ld.records.cols,
                    rows |-> SelectRows(ld.records.rows,
                                [i \in DOMAIN col |-> ~PyEq(col[i], index)])]
        ow == overwrite_records_to_file(ti, records, f)
    IN IF ld.err # "ok" THEN [err |-> ld.err, file |-> f, ret |-> "none"]
       ELSE IF index_col(ti) \notin Range(ld.records.cols)
            THEN [err |-> "KeyError", file |-> f, ret |-> "none"]
       ELSE IF ow.err # "ok" THEN [err |-> ow.err, file |-> f, ret |-> "none"]
       ELSE [err |-> "ok", file |-> ow.file,
             ret |-> Len(records.rows) # Len(ld.records.rows)]

\* records[table_info.index_col()] is a KeyError when the loaded frame has
\* no column of that name.
remove_record(index, ti, f) ==
    LET ld == load_all_records_from_file(ti, f)
        col == Column(ld.records, index_col(ti))
        records == [cols |-> ld.records.cols,
                    rows |-> SelectRows(ld.records.rows,
                                [i \in DOMAIN col |-> ~PyEq(col[i], index)])]
        ow == overwrite_records_to_file(ti, records, f)
    IN IF ld.err # "ok" THEN [err |-> ld.err, file |-> f, ret |-> "none"]
       ELSE IF index_col(ti) \notin Range(ld.records.cols)
            THEN [err |-> "KeyError", file |-> f, ret |-> "none"]
       ELSE IF Len(records.rows) = Len(ld.records.rows)
            THEN [err |-> "ok", file |-> f, ret |-> FALSE]
       ELSE IF ow.err # "ok" THEN [err |-> ow.err, file |-> f, ret |-> "none"]
       ELSE [err |-> "ok", file |-> ow.file, ret |-> TRUE]

(***************************************************************************)
(* load_records.py: filtered load                                          *)
(***************************************************************************)
\* operator(records[col], val) for one cell; "TypeError" when pandas cannot
\* order the column's values against val.
Unorderable(ty, val) ==
    \/ ty \in {"int64", "float64"} /\ val.t = "str"
    \/ ty = "string" /\ IsNum(val)

Compare(op, cell, val) ==
    CASE op = "eq" -> PyEq(cell, val)
      [] op = "lt" -> IsNum(cell) /\ IsNum(val) /\ cell.v < val.v
      [] op = "gt" -> IsNum(cell) /\ IsNum(val) /\ cell.v > val.v

\* Variant: every key of the dict is looked up in the schema before any
\* comparison is made.
RECURSIVE apply_filter_keys_first(_, _, _, _)
apply_filter_keys_first(records, col_filters, op, ti) ==
    IF \E k \in DOMAIN col_filters : col_filters[k][1] \notin Range(ti.names)
    THEN [err |-> "KeyError", records |-> records]
    ELSE IF col_filters = <<>> THEN [err |-> "ok", records |-> records]
    ELSE LET col == Head(col_filters)[1]
             val == Head(col_filters)[2]
         IN IF op # "eq" /\ Unorderable(ti.types[col], val)
            THEN [err |-> "TypeError", records |-> records]
            ELSE apply_filter_keys_first(
                   [cols |-> records.cols,
                    rows |-> SelectRows(records.rows,
                               [i \in DOMAIN records.rows |->
                                   Compare(op, records.rows[i][col], val)])],
                   Tail(col_filters), op, ti)

RECURSIVE apply_filter(_, _, _, _)
apply_filter(records, col_filters, op, ti) ==
    IF col_filters = <<>> THEN [err |-> "ok", records |-> records]
    ELSE LET col == Head(col_filters)[1]
             val == Head(col_filters)[2]
         IN IF col \notin Range(ti.names)
            THEN [err |-> "KeyError", records |-> records]
            ELSE IF op # "eq" /\ Unorderable(ti.types[col], val)
            THEN [err |-> "TypeError", records |-> records]
            ELSE apply_filter(
                   [cols |-> records.cols,
                    rows |-> SelectRows(records.rows,
                               [i \in DOMAIN records.rows |->
                                   Compare(op, records.rows[i][col], val)])],
                   Tail(col_filters), op, ti)

\* Variant: each of the lt and gt filters is applied to the rows left by the
\* equality filters instead of to the rows left by the filter before it.
load_records_from_file_unchained(ti, eq_cols, lt_cols, gt_cols, f) ==
    LET ld == load_all_records_from_file(ti, f)
        e == apply_filter(ld.records, eq_cols, "eq", ti)
        l == apply_filter(e.records, lt_cols, "lt", ti)
        g == apply_filter(e.records, gt_cols, "gt", ti)
    IN IF ld.err # "ok" THEN ld
       ELSE IF e.err # "ok" THEN e
       ELSE IF l.err # "ok" THEN l
       ELSE g

load_records_from_file(ti, eq_cols, lt_cols, gt_cols, f) ==
    LET ld == load_all_records_from_file(ti, f)
        e == apply_filter(ld.records, eq_cols, "eq", ti)
        l == apply_filter(e.records, lt_cols, "lt", ti)
        g == apply_filter(l.records, gt_cols, "gt", ti)
    IN IF ld.err # "ok" THEN ld
       ELSE IF e.err # "ok" THEN e
       ELSE IF l.err # "ok" THEN l
       ELSE g

(***************************************************************************)
(* The store as a state machine: one action per public call on the table   *)
(* "test".  The store keeps nothing between calls but the file: file is    *)
(* the persisted table; while a call's outcome is with the caller, prev is *)
(* the persisted table before that call and last the call with its         *)
(* arguments and outcome.  calls holds, for each caller that may run       *)
(* concurrently with another, how far its call has got.                    *)
(***************************************************************************)
TI == TEST_TABLE_INFO

\* Cell values callers put in frames under each column label: index values
\* as int and as float; for "value" an in-range number, a number outside
\* the numeric limit, and text.
CellsOf(label) ==
    CASE label = "ID" -> {IntVal(1), FloatVal(2), IntVal(3)}
      [] label = "value" -> {IntVal(1), IntVal(5), StrVal("a")}
      [] OTHER -> {StrVal("a")}

\* New values callers pass to update_record for each field name.
UpdatesOf(label) ==
    CASE label = "ID" -> {FloatVal(2), StrVal("a")}
      [] label = "value" -> {FloatVal(2), IntVal(5), StrVal("a")}
      [] OTHER -> {StrVal("a")}

\* Column layouts of supplied frames: the schema's, the schema's in another
\* order, one with a foreign column in place of a schema column and one with
\* a foreign column besides the schema's.
Layouts ==
    {<<"ID", "value">>, <<"value", "ID">>, <<"ID", "records">>,
     <<"ID", "value", "records">>}

RowsOf(cols) == {r \in [Range(cols) -> UNION {CellsOf(c) : c \in Range(cols)}] :
                    \A c \in Range(cols) : r[c] \in CellsOf(c)}

Frames(maxlen) ==
    UNION {{[cols |-> cols, rows |-> rows] :
               rows \in UNION {[1..n -> RowsOf(cols)] : n \in 0..maxlen}} :
           cols \in Layouts}

Indices == CellsOf("ID")

FieldNames == {"ID", "value", "bad_column_name"}

FieldUpdates == UNION {{<<c, x>> : x \in UpdatesOf(c)} : c \in FieldNames}

\* Ordered keyword arguments: distinct field names, each with a value.
Kwargs ==
    {kw \in UNION {[1..n -> FieldUpdates] : n \in 0..MaxChanges} :
        \A i, j \in DOMAIN kw : i # j => kw[i][1] # kw[j][1]}

FilterColumns == {"ID", "value", "invalid"}

NoFilters == [eq |-> <<>>, lt |-> <<>>, gt |-> <<>>]

\* Filter arguments with at most one entry in all.
Filters ==
    {NoFilters}
    \cup UNION {{[NoFilters EXCEPT ![k] = <<<<c, x>>>>] : x \in CellsOf(c)} :
                   k \in {"eq", "lt", "gt"}, c \in FilterColumns}

NoCall ==
    [op |-> "none", index |-> NullVal, records |-> EmptyFrame(TI),
     kwargs |-> <<>>, filters |-> NoFilters, err |-> "ok", ret |-> "none"]

Idle == last.op = "none"

\* The callers that may be inside a mutating call at the same time.
Procs == {1, 2}

\* A caller that is in no call.
NoWork ==
    [pc |-> "idle", op |-> "none", records |-> EmptyFrame(TI),
     index |-> NullVal, snap |-> NoFile, readat |-> 0, wrote |-> 0,
     err |-> "ok"]

Init ==
    /\ file = NoFile
    /\ prev = NoFile
    /\ last = NoCall
    /\ calls = [p \in Procs |-> NoWork]

AddRecords ==
    /\ Idle
    /\ calls' = calls
    /\ \E records \in Frames(MaxBatch) :
        /\ Len(file.rows) + Len(records.rows) <= MaxRows
        /\ LET r == add_records_to_file(TI, records, file) IN
           /\ file' = r.file
           /\ prev' = file
           /\ last' = [NoCall EXCEPT !.op = "add", !.records = records,
                                     !.err = r.err]

UpdateRecord ==
    /\ Idle
    /\ calls' = calls
    /\ \E index \in Indices, kwargs \in Kwargs :
        LET r == update_record(index, TI, kwargs, file) IN
        /\ file' = r.file
        /\ prev' = file
        /\ last' = [NoCall EXCEPT !.op = "update", !.index = index,
                                  !.kwargs = kwargs, !.err = r.err,
                                  !.ret = r.ret]

RemoveRecord ==
    /\ Idle
    /\ calls' = calls
    /\ \E index \in Indices :
        LET r == remove_record(index, TI, file) IN
        /\ file' = r.file
        /\ prev' = file
        /\ last' = [NoCall EXCEPT !.op = "remove", !.index = index,
                                  !.err = r.err, !.ret = r.ret]

OverwriteRecords ==
    /\ Idle
    /\ calls' = calls
    /\ \E records \in Frames(MaxBatch) :
        LET r == overwrite_records_to_file(TI, records, file) IN
        /\ file' = r.file
        /\ prev' = file
        /\ last' = [NoCall EXCEPT !.op = "overwrite", !.records = records,
                                  !.err = r.err]

LoadRecords ==
    /\ Idle
    /\ calls' = calls
    /\ \E flt \in Filters :
        LET r == load_records_from_file(TI, flt.eq, flt.lt, flt.gt, file) IN
        /\ file' = file
        /\ prev' = file
        /\ last' = [NoCall EXCEPT !.op = "load", !.filters = flt,
                                  !.err = r.err, !.ret = r.records]

\* The caller has the outcome; nothing of the call stays in the store.
Return ==
    /\ ~Idle
    /\ calls' = calls
    /\ file' = file
    /\ prev' = file
    /\ last' = NoCall

Next ==
    \/ AddRecords
    \/ UpdateRecord
    \/ RemoveRecord
    \/ OverwriteRecords
    \/ LoadRecords
    \/ Return

Spec == Init /\ [][Next]_vars

\* The store driven only through add_records_to_file, update_record,
\* remove_record and the loads.
NextEdit ==
    \/ AddRecords
    \/ UpdateRecord
    \/ RemoveRecord
    \/ LoadRecords
    \/ Return

SpecEdit == Init /\ [][NextEdit]_vars

(***************************************************************************)
(* Vocabulary of the properties.                                           *)
(***************************************************************************)
\* The frame has exactly the schema's columns and every cell passes
\* check_field.
SchemaValid(ti, records) ==
    /\ Range(records.cols) = Range(ti.names)
    /\ \A i \in DOMAIN records.rows : \A c \in Range(records.cols) :
           check_field(ti, records.rows[i][c], c) = "ok"

\* Some row's index-column value is the index value of a persisted row.
IndexCollision(ti, records, f) ==
    /\ index_col(ti) \in Range(records.cols)
    /\ \E i \in DOMAIN records.rows : \E j \in DOMAIN f.rows :
           PyEq(records.rows[i][index_col(ti)], f.rows[j][index_col(ti)])

HasIndex(ti, f, index) ==
    \E j \in DOMAIN f.rows : PyEq(f.rows[j][index_col(ti)], index)

\* Same number of rows and, row by row and column by column, equal values.
SameRows(ti, rows_a, rows_b) ==
    /\ Len(rows_a) = Len(rows_b)
    /\ \A i \in DOMAIN rows_a : \A c \in Range(ti.names) :
           PyEq(rows_a[i][c], rows_b[i][c])

UniqueIndex(ti, f) ==
    \A i, j \in DOMAIN f.rows :
        i # j => ~PyEq(f.rows[i][index_col(ti)], f.rows[j][index_col(ti)])

(***************************************************************************)
(* Properties.                                                             *)
(***************************************************************************)
\* C1: adding a schema-valid batch in which a row's index value equals the
\* index value of a persisted row raises ValueError and leaves the persisted
\* table as it was.
C1_DuplicateRejectionAtomic ==
    (/\ last.op = "add"
     /\ SchemaValid(TI, last.records)
     /\ IndexCollision(TI, last.records, prev))
    => (last.err = "ValueError" /\ file = prev)

\* C2: starting from the absent table, after any sequence of
\* add_records_to_file, update_record and remove_record calls no two
\* persisted rows have the same index value.
C2_IndexUnique == UniqueIndex(TI, file)

\* C3: after a successful update_record the stored row of that index has
\* every changed field equal to its new value, a load with eq_cols on the
\* index returns that row, and the returned row equals it.
C3_UpdatePersists ==
    (last.op = "update" /\ last.err = "ok")
    => LET ld == load_records_from_file(TI,
                    <<<<index_col(TI), last.index>>>>, <<>>, <<>>, file)
       IN /\ ld.err = "ok"
          /\ Len(ld.records.rows) >= 1
          /\ \A c \in Range(TI.names) : PyEq(ld.records.rows[1][c], last.ret[c])
          /\ \A k \in DOMAIN last.kwargs :
                PyEq(ld.records.rows[1][last.kwargs[k][1]], last.kwargs[k][2])

\* The first error check_field reports for the changes, in the order given.
FirstInvalidChange(ti, kwargs) ==
    FirstError([k \in DOMAIN kwargs |-> check_field(ti, kwargs[k][2], kwargs[k][1])])

\* C4: an update_record of an existing index in which some field change
\* fails check_field raises that error and leaves the persisted table, the
\* targeted row included, as it was.
C4_UpdateAllOrNothing ==
    (/\ last.op = "update"
     /\ HasIndex(TI, prev, last.index)
     /\ FirstInvalidChange(TI, last.kwargs) # "ok")
    => (/\ last.err = FirstInvalidChange(TI, last.kwargs)
        /\ file = prev)

\* An update whose first change is valid and differs from the stored value
\* and whose second change is invalid.
C4_Witness ==
    /\ last.op = "update"
    /\ HasIndex(TI, prev, last.index)
    /\ Len(last.kwargs) = 2
    /\ check_field(TI, last.kwargs[1][2], last.kwargs[1][1]) = "ok"
    /\ check_field(TI, last.kwargs[2][2], last.kwargs[2][1]) = "ArithmeticError"
    /\ \E j \in DOMAIN prev.rows :
          /\ PyEq(prev.rows[j][index_col(TI)], last.index)
          /\ ~PyEq(prev.rows[j][last.kwargs[1][1]], last.kwargs[1][2])
    /\ last.err = "ArithmeticError"

\* The error check_dataframe reports for a frame with rows.
SchemaError(ti, records) ==
    IF records.rows = <<>> \/ SchemaValid(ti, records) THEN "ok"
    ELSE check_dataframe(ti, records)

\* C5: adding a batch that is schema-invalid and has an index value that
\* collides with a persisted row raises the schema error, not ValueError,
\* and writes nothing; a ValueError writes nothing either.
C5_ValidationBeforeDuplicateCheck ==
    /\ (/\ last.op = "add"
        /\ ~SchemaValid(TI, last.records)
        /\ IndexCollision(TI, last.records, prev))
       => (/\ last.err \in {"KeyError", "TypeError", "ArithmeticError"}
           /\ last.err = SchemaError(TI, last.records)
           /\ file = prev)
    /\ (last.op = "add" /\ last.err = "ValueError") => file = prev

\* A wrong-typed batch whose index collides was rejected with TypeError.
C5_Witness ==
    /\ last.op = "add"
    /\ ~SchemaValid(TI, last.records)
    /\ IndexCollision(TI, last.records, prev)
    /\ any_duplicate_values(FirstColumn(ReadParquet(prev)), FirstColumn(last.records))
    /\ last.err = "TypeError"

\* C6: writing a schema-valid table T with _overwrite_records_to_file_ and
\* loading it back with _load_all_records_from_file_ gives T's rows, in T's
\* order, with T's column values, whatever the file held before.
C6_RoundTrip ==
    (last.op = "overwrite" /\ SchemaValid(TI, last.records))
    => LET ld == load_all_records_from_file(TI, file) IN
       /\ last.err = "ok"
       /\ ld.err = "ok"
       /\ Range(ld.records.cols) = Range(last.records.cols)
       /\ SameRows(TI, ld.records.rows, last.records.rows)

\* A table of two rows, with an int in the float column, was written over
\* a file that held other rows.
C6_Witness ==
    /\ last.op = "overwrite"
    /\ SchemaValid(TI, last.records)
    /\ Len(last.records.rows) = 2
    /\ last.records.rows[1]["value"].t = "int"
    /\ Len(prev.rows) >= 1
    /\ ~SameRows(TI, prev.rows, last.records.rows)
    /\ file # prev

\* C7: a successful add_records_to_file leaves the file holding the rows it
\* held before, in their order, followed by the new rows in the order given;
\* an absent file is created holding the new rows.
C7_AddAppends ==
    (last.op = "add" /\ last.err = "ok")
    => (/\ file.exists
        /\ file.cols = TI.names
        /\ Len(file.rows) = Len(prev.rows) + Len(last.records.rows)
        /\ \A i \in DOMAIN prev.rows : file.rows[i] = prev.rows[i]
        /\ \A i \in DOMAIN last.records.rows : \A c \in Range(TI.names) :
               PyEq(file.rows[Len(prev.rows) + i][c], last.records.rows[i][c]))

\* Two different rows were added to a file that already held a row.
C7_Witness ==
    /\ last.op = "add"
    /\ last.err = "ok"
    /\ Len(prev.rows) >= 1
    /\ Len(last.records.rows) = 2
    /\ ~SameRows(TI, <<last.records.rows[1]>>, <<last.records.rows[2]>>)
    /\ ~SameRows(TI, <<prev.rows[1]>>, <<last.records.rows[1]>>)

\* The positions of the rows of f whose index value is not index.
Kept(ti, f, index) ==
    {i \in DOMAIN f.rows : ~PyEq(f.rows[i][index_col(ti)], index)}

\* The k-th smallest element of a set of positions.
Nth(S, k) == CHOOSE i \in S : Cardinality({j \in S : j < i}) = k - 1

\* C8: remove_record returns True exactly when a persisted row had the
\* index; after True no persisted row has it and the other rows are kept,
\* unchanged and in their order.
C8_RemoveRecord ==
    last.op = "remove"
    => (/\ last.err = "ok"
        /\ last.ret = HasIndex(TI, prev, last.index)
        /\ last.ret = TRUE =>
              (/\ ~HasIndex(TI, file, last.index)
               /\ file.exists
               /\ Len(file.rows) = Cardinality(Kept(TI, prev, last.index))
               /\ \A k \in DOMAIN file.rows :
                      file.rows[k] = prev.rows[Nth(Kept(TI, prev, last.index), k)]))

\* A row was removed from between two rows that stayed.
C8_Witness ==
    /\ last.op = "remove"
    /\ last.ret = TRUE
    /\ Len(prev.rows) = 3
    /\ Len(file.rows) = 2
    /\ PyEq(prev.rows[2][index_col(TI)], last.index)
    /\ file.rows[1] # file.rows[2]

\* Two rows with the same index were removed by one call.
C8_WitnessDuplicates ==
    /\ last.op = "remove"
    /\ last.ret = TRUE
    /\ Len(prev.rows) - Len(file.rows) = 2

\* C9: after remove_record(idx) on a table holding idx returned True, a
\* second remove_record(idx) returns False and leaves the table as the
\* first call left it; remove_record of an index that is not present
\* returns False and leaves the table, or the absence of the file, as it
\* was.
C9_RemoveIdempotent ==
    last.op = "remove"
    => (/\ HasIndex(TI, prev, last.index) =>
              LET again == remove_record(last.index, TI, file) IN
              /\ last.ret = TRUE
              /\ again.err = "ok"
              /\ again.ret = FALSE
              /\ again.file = file
        /\ ~HasIndex(TI, prev, last.index) =>
              (last.err = "ok" /\ last.ret = FALSE /\ file = prev))

\* The only row of a table was removed, and a remove found no file.
C9_Witness ==
    /\ last.op = "remove"
    /\ last.ret = TRUE
    /\ file.exists
    /\ file.rows = <<>>

C9_WitnessAbsent ==
    /\ last.op = "remove"
    /\ last.ret = FALSE
    /\ ~prev.exists

\* C10: loading a table whose file does not exist returns a zero-row table
\* with the schema's columns, raises nothing, and does not create the file.
C10_MissingFileIsEmpty ==
    /\ ~file.exists =>
          LET ld == load_all_records_from_file(TI, file) IN
          /\ ld.err = "ok"
          /\ ld.records.rows = <<>>
          /\ ld.records.cols = TI.names
    /\ (last.op = "load" /\ ~prev.exists) =>
          (/\ ~file.exists
           /\ last.filters = NoFilters =>
                 (/\ last.err = "ok"
                  /\ last.ret.rows = <<>>
                  /\ last.ret.cols = TI.names))

\* load_records_from_file without filters ran when no file existed.
C10_Witness ==
    /\ last.op = "load"
    /\ last.filters = NoFilters
    /\ ~prev.exists
    /\ last.err = "ok"

(***************************************************************************)
(* load_records_from_file as a function of the persisted table and the     *)
(* filter arguments: the table is any schema-conforming table with unique  *)
(* index values, the filters hold up to MaxFilters entries in all.         *)
(***************************************************************************)
MaxFilters == 2

\* Rows as they are stored under TI: the index as int64, the value as
\* float64 within the numeric limit.
StoredRows ==
    {[ID |-> IntVal(i), value |-> FloatVal(x)] : i \in {1, 2, 3}, x \in {1, 2}}

StoredTables ==
    {NoFile} \cup
    {[exists |-> TRUE, cols |-> TI.names, rows |-> rows] :
        rows \in {r \in UNION {[1..n -> StoredRows] : n \in 0..MaxRows} :
                     \A i, j \in DOMAIN r : i # j => r[i].ID # r[j].ID}}

\* One entry of a filter dict: a column name and the value compared with.
FilterEntries ==
    {<<"ID", IntVal(1)>>, <<"ID", StrVal("a")>>,
     <<"value", IntVal(2)>>, <<"value", StrVal("a")>>,
     <<"invalid", IntVal(1)>>}

\* A filter dict of up to n entries, in insertion order; its keys differ.
FilterDicts(n) ==
    {d \in UNION {[1..k -> FilterEntries] : k \in 0..n} :
        \A i, j \in DOMAIN d : i # j => d[i][1] # d[j][1]}

FilterArgs ==
    UNION {UNION {{[eq |-> e, lt |-> l, gt |-> g] :
                      g \in FilterDicts(MaxFilters - Len(e) - Len(l))} :
                  l \in FilterDicts(MaxFilters - Len(e))} :
           e \in FilterDicts(MaxFilters)}

InitFilter ==
    /\ file \in StoredTables
    /\ prev = file
    /\ last = NoCall
    /\ calls = [p \in Procs |-> NoWork]

LoadFiltered ==
    /\ Idle
    /\ calls' = calls
    /\ \E flt \in FilterArgs :
        LET r == load_records_from_file(TI, flt.eq, flt.lt, flt.gt, file) IN
        /\ file' = file
        /\ prev' = file
        /\ last' = [NoCall EXCEPT !.op = "load", !.filters = flt,
                                  !.err = r.err, !.ret = r.records]

NextFilter ==
    \/ LoadFiltered
    \/ Return

SpecFilter == InitFilter /\ [][NextFilter]_vars

\* Every entry of the three filter dicts, with its operator.
Comparisons(flt) ==
    {<<"eq", flt.eq[k]>> : k \in DOMAIN flt.eq}
    \cup {<<"lt", flt.lt[k]>> : k \in DOMAIN flt.lt}
    \cup {<<"gt", flt.gt[k]>> : k \in DOMAIN flt.gt}

\* Every filter names a schema column and a value its column orders with.
WellFormed(ti, flt) ==
    \A cmp \in Comparisons(flt) :
        /\ cmp[2][1] \in Range(ti.names)
        /\ cmp[1] # "eq" => ~Unorderable(ti.types[cmp[2][1]], cmp[2][2])

Satisfies(row, flt) ==
    \A cmp \in Comparisons(flt) : Compare(cmp[1], row[cmp[2][1]], cmp[2][2])

\* C11: a filtered load with well-formed filters raises nothing and returns
\* exactly the persisted rows that satisfy every comparison, in stored
\* order: all rows when there are no filters, no rows when none matches.
C11_FilterComposition ==
    (last.op = "load" /\ WellFormed(TI, last.filters))
    => /\ last.err = "ok"
       /\ last.ret.rows =
             SelectRows(file.rows,
                        [i \in DOMAIN file.rows |->
                            Satisfies(file.rows[i], last.filters)])
       /\ last.filters = NoFilters => last.ret.rows = file.rows

\* Two comparisons of different kinds, each of which alone keeps a row the
\* other drops, and a row that satisfies both.
C11_Witness ==
    /\ last.op = "load"
    /\ last.err = "ok"
    /\ Len(last.filters.lt) = 1
    /\ Len(last.filters.gt) = 1
    /\ last.ret.rows # <<>>
    /\ \E i \in DOMAIN file.rows :
          /\ Satisfies(file.rows[i], [last.filters EXCEPT !.gt = <<>>])
          /\ ~Satisfies(file.rows[i], last.filters)
    /\ \E i \in DOMAIN file.rows :
          /\ Satisfies(file.rows[i], [last.filters EXCEPT !.lt = <<>>])
          /\ ~Satisfies(file.rows[i], last.filters)

\* A load whose filters match no row.
C11_WitnessEmpty ==
    /\ last.op = "load"
    /\ last.err = "ok"
    /\ last.filters # NoFilters
    /\ file.rows # <<>>
    /\ last.ret.rows = <<>>

\* The filter entries in the order the load goes through them: eq_cols,
\* then lt_cols, then gt_cols, each in insertion order.
InOrder(flt) ==
    [k \in DOMAIN flt.eq |-> <<"eq", flt.eq[k]>>]
    \o [k \in DOMAIN flt.lt |-> <<"lt", flt.lt[k]>>]
    \o [k \in DOMAIN flt.gt |-> <<"gt", flt.gt[k]>>]

UnknownKey(ti, cmp) == cmp[2][1] \notin Range(ti.names)

Uncomparable(ti, cmp) ==
    /\ ~UnknownKey(ti, cmp)
    /\ cmp[1] # "eq"
    /\ Unorderable(ti.types[cmp[2][1]], cmp[2][2])

C12_WitnessKeyFirst ==
    /\ last.op = "load"
    /\ file.rows = <<>>
    /\ last.filters.eq = <<<<"invalid", IntVal(1)>>>>
    /\ last.filters.gt = <<<<"value", StrVal("a")>>>>
    /\ last.err = "KeyError"

\* C13: an overwrite with a frame that violates the schema (a column set
\* other than the schema's, a value of the wrong type or outside a limit)
\* raises an error and leaves the persisted table as it was.
C13_OverwriteValidatesFirst ==
    (last.op = "overwrite" /\ ~SchemaValid(TI, last.records))
    => (last.err # "ok" /\ file = prev)

\* C14: from the absent file on, after every call of the store, successful
\* or failed, the persisted table has exactly the schema's columns and each
\* stored value passes check_field for its column, so that the table passes
\* check_dataframe.
C14_SchemaConformance ==
    file.exists =>
        /\ SchemaValid(TI, ReadParquet(file))
        /\ check_dataframe(TI, ReadParquet(file)) = "ok"
        /\ \A i \in DOMAIN file.rows : \A c \in Range(TI.names) :
               Cast(TI.types[c], file.rows[i][c]) = file.rows[i][c]

\* A call that failed validation, on a persisted table of several rows one
\* of which was supplied with its index as a float.
C14_Witness ==
    /\ last.op \in {"add", "update", "overwrite"}
    /\ last.err \in {"KeyError", "TypeError", "ArithmeticError"}
    /\ Len(file.rows) >= 2
    /\ \E i \in DOMAIN file.rows : file.rows[i].ID = IntVal(2)

(***************************************************************************)
(* The table "test", written under TI, used through a description of the   *)
(* same name with other columns.                                           *)
(***************************************************************************)
TIW == TEST_TABLE_INFO_WRONG_COLUMNS

\* Frames laid out for TIW: up to MaxBatch copies of one conforming row.
WrongFrames ==
    {[cols |-> TIW.names, rows |-> rows] :
        rows \in UNION {[1..n -> {[mismatched |-> IntVal(1),
                                   records |-> FloatVal(1)]}] :
                        n \in 0..MaxBatch}}

LoadMismatched ==
    /\ Idle
    /\ calls' = calls
    /\ LET r == load_records_from_file(TIW, <<>>, <<>>, <<>>, file) IN
       /\ file' = file
       /\ prev' = file
       /\ last' = [NoCall EXCEPT !.op = "load", !.err = r.err,
                                 !.ret = r.records]

AddMismatched ==
    /\ Idle
    /\ calls' = calls
    /\ \E records \in WrongFrames :
        LET r == add_records_to_file(TIW, records, file) IN
        /\ file' = r.file
        /\ prev' = file
        /\ last' = [NoCall EXCEPT !.op = "add", !.records = records,
                                  !.err = r.err]

UpdateMismatched ==
    /\ Idle
    /\ calls' = calls
    /\ \E index \in Indices :
        LET kwargs == <<<<"records", FloatVal(2)>>>>
            r == update_record(index, TIW, kwargs, file)
        IN /\ file' = r.file
           /\ prev' = file
           /\ last' = [NoCall EXCEPT !.op = "update", !.index = index,
                                     !.kwargs = kwargs, !.err = r.err,
                                     !.ret = r.ret]

RemoveMismatched ==
    /\ Idle
    /\ calls' = calls
    /\ \E index \in Indices :
        LET r == remove_record(index, TIW, file) IN
        /\ file' = r.file
        /\ prev' = file
        /\ last' = [NoCall EXCEPT !.op = "remove", !.index = index,
                                  !.err = r.err, !.ret = r.ret]

NextMismatch ==
    \/ LoadMismatched
    \/ AddMismatched
    \/ UpdateMismatched
    \/ RemoveMismatched
    \/ Return

SpecMismatch == InitFilter /\ [][NextMismatch]_vars

\* C15: a load, add, update or remove under a schema whose column set is
\* not the column set of the existing file raises KeyError, however many
\* rows the file has.
C15_ReadChecksColumns ==
    (/\ last.op \in {"load", "add", "update", "remove"}
     /\ prev.exists
     /\ Range(prev.cols) # Range(TIW.names))
    => last.err = "KeyError"

\* C16: update_record with no field changes raises AssertionError whether
\* or not the index exists; with changes and an index that matches no row
\* it raises IndexError even when the changes are invalid; a field error is
\* raised only when the row exists; no failure writes anything.
C16_UpdateFailureOrder ==
    last.op = "update" =>
        /\ Len(last.kwargs) = 0 => last.err = "AssertionError"
        /\ (Len(last.kwargs) > 0 /\ ~HasIndex(TI, prev, last.index))
           => last.err = "IndexError"
        /\ last.err \in {"KeyError", "TypeError", "ArithmeticError"}
           => (/\ HasIndex(TI, prev, last.index)
               /\ last.err = FirstInvalidChange(TI, last.kwargs))
        /\ last.err # "ok" => file = prev

\* An update of an index that matches no row of a table with rows, whose
\* first change names an unknown field and whose second is out of range.
C16_Witness ==
    /\ last.op = "update"
    /\ prev.rows # <<>>
    /\ ~HasIndex(TI, prev, last.index)
    /\ Len(last.kwargs) = 2
    /\ check_field(TI, last.kwargs[1][2], last.kwargs[1][1]) = "KeyError"
    /\ check_field(TI, last.kwargs[2][2], last.kwargs[2][1]) = "ArithmeticError"
    /\ last.err = "IndexError"

\* An update without changes of an index that is stored.
C16_WitnessNoChanges ==
    /\ last.op = "update"
    /\ last.kwargs = <<>>
    /\ HasIndex(TI, prev, last.index)
    /\ last.err = "AssertionError"

(***************************************************************************)
(* Two callers inside mutating calls at once.  A call reads the file       *)
(* (_load_all_records_from_file_), works on what it read, and writes the   *)
(* whole file (_overwrite_records_to_file_); nothing keeps another call    *)
(* from running between the two.  In calls[p]: pc is the caller's place,   *)
(* snap the table as its call read it, readat the number of writes made    *)
(* before it read, wrote the rank of its write among the writes (0: none). *)
(***************************************************************************)
\* The calls a caller makes: the addition of one row, the removal of an
\* index.
Works ==
    {[op |-> "add", index |-> NullVal,
      records |-> [cols |-> TI.names,
                   rows |-> <<[ID |-> IntVal(i), value |-> IntVal(1)]>>]] :
        i \in {1, 2, 3}}
    \cup {[op |-> "remove", index |-> IntVal(i), records |-> EmptyFrame(TI)] :
             i \in {1, 2, 3}}

Writes == Cardinality({p \in Procs : calls[p].wrote > 0})

InitConcurrent ==
    /\ file \in StoredTables
    /\ prev = file
    /\ last = NoCall
    /\ calls = [p \in Procs |-> NoWork]

\* The call of caller p up to and including its read of the file.
ReadStep(p) ==
    /\ calls[p].pc = "idle"
    /\ \E w \in Works :
        LET ld == load_all_records_from_file(TI, file) IN
        calls' = [calls EXCEPT ![p] =
                     [NoWork EXCEPT !.pc = IF ld.err = "ok" THEN "read" ELSE "done",
                                    !.op = w.op, !.records = w.records,
                                    !.index = w.index, !.snap = file,
                                    !.readat = Writes, !.err = ld.err]]
    /\ UNCHANGED <<file, prev, last>>

\* What the call c does with the table it read: the error it raises, the
\* table it writes, and whether it writes at all.
Outcome(c) ==
    IF c.op = "add"
    THEN LET r == add_records_to_file(TI, c.records, c.snap) IN
         [err |-> r.err, file |-> r.file, written |-> r.err = "ok"]
    ELSE LET r == remove_record(c.index, TI, c.snap) IN
         [err |-> r.err, file |-> r.file,
          written |-> r.err = "ok" /\ r.ret = TRUE]

\* Variant: the call works on the table as it is when the call writes.
WriteStepRereading(p) ==
    /\ calls[p].pc = "read"
    /\ LET r == Outcome([calls[p] EXCEPT !.snap = file]) IN
       /\ file' = IF r.written THEN r.file ELSE file
       /\ calls' = [calls EXCEPT ![p].pc = "done", ![p].err = r.err,
                                 ![p].wrote = IF r.written THEN Writes + 1 ELSE 0]
    /\ UNCHANGED <<prev, last>>

\* The rest of the call of caller p, from the table it read to its write.
WriteStep(p) ==
    /\ calls[p].pc = "read"
    /\ LET r == Outcome(calls[p]) IN
       /\ file' = IF r.written THEN r.file ELSE file
       /\ calls' = [calls EXCEPT ![p].pc = "done", ![p].err = r.err,
                                 ![p].wrote = IF r.written THEN Writes + 1 ELSE 0]
    /\ UNCHANGED <<prev, last>>

NextConcurrent ==
    \E p \in Procs :
        \/ ReadStep(p)
        \/ WriteStep(p)

SpecConcurrent == InitConcurrent /\ [][NextConcurrent]_vars

\* Both callers wrote, and the one that wrote later had read the file
\* before the other wrote.
Overlapped(p, q) ==
    /\ calls[p].wrote > 0
    /\ calls[q].wrote > calls[p].wrote
    /\ calls[q].readat < calls[p].wrote

\* Every row of the batch has its index value in the persisted table.
Present(records) ==
    \A i \in DOMAIN records.rows : HasIndex(TI, file, records.rows[i].ID)

\* C17: the persisted table is exactly what the caller that wrote last
\* wrote from the table it had read; and when the two calls did not
\* overlap, a row a call appended successfully is in the table unless the
\* other call removed it afterwards.
C17_LastWriteWins ==
    \A p \in Procs : \A q \in Procs \ {p} :
        /\ (calls[p].wrote > 0 /\ calls[p].wrote > calls[q].wrote)
           => file = Outcome(calls[p]).file
        /\ (/\ calls[p].op = "add"
            /\ calls[p].wrote > 0
            /\ ~Overlapped(p, q)
            /\ ~(/\ calls[q].op = "remove"
                 /\ calls[q].wrote > calls[p].wrote
                 /\ \E i \in DOMAIN calls[p].records.rows :
                       PyEq(calls[p].records.rows[i].ID, calls[q].index)))
           => Present(calls[p].records)

\* Both calls read before either wrote; the first one appended its row and
\* returned without error, the second one wrote after it, and the first
\* one's row is not in the table.
C17_Witness ==
    \E p \in Procs : \E q \in Procs \ {p} :
        /\ calls[p].op = "add"
        /\ calls[p].pc = "done"
        /\ calls[p].err = "ok"
        /\ calls[p].wrote = 1
        /\ calls[q].pc = "done"
        /\ calls[q].err = "ok"
        /\ calls[q].wrote = 2
        /\ calls[q].readat = 0
        /\ ~Present(calls[p].records)

(***************************************************************************)
(* check_field of the service directory's schema as a function of the      *)
(* field name and the value.                                               *)
(***************************************************************************)
\* The values checked for each field: for the prices every integer from -1
\* to 100, for the code integers of 5, 6 and 7 digits, for the name text of
\* 0, 1, 20 and 21 characters; for each field a value of the wrong type.
DirectoryValues(field_name) ==
    CASE field_name \in {"price_cents", "price_dollars"} ->
            {IntVal(n) : n \in (0 - 1)..100} \cup {StrVal("a")}
      [] field_name = "service_id" ->
            {IntVal(99999), IntVal(100000), IntVal(999999), IntVal(1000000),
             StrVal("a")}
      [] OTHER ->
            {StrVal(""), StrVal("a"), StrVal("abcdefghijklmnopqrst"),
             StrVal("abcdefghijklmnopqrstu"), IntVal(1)}

DirectoryFields == Range(PROVIDER_DIRECTORY_INFO.names) \cup {"price"}

\* PROVIDER_DIRECTORY_INFO.check_field(value, field_name)
CheckDirectoryField ==
    /\ Idle
    /\ calls' = calls
    /\ \E field_name \in DirectoryFields :
        \E value \in DirectoryValues(field_name) :
            /\ last' = [NoCall EXCEPT
                           !.op = "check_field",
                           !.kwargs = <<<<field_name, value>>>>,
                           !.err = check_field(PROVIDER_DIRECTORY_INFO,
                                               value, field_name)]
            /\ UNCHANGED <<file, prev>>

NextDirectory ==
    \/ CheckDirectoryField
    \/ Return

SpecDirectory == Init /\ [][NextDirectory]_vars

\* C18: check_field of the service directory accepts every integer from 0
\* to 99 for price_cents and rejects -1 and 100 with ArithmeticError.
C18_PriceCentsRange ==
    (/\ last.op = "check_field"
     /\ last.kwargs[1][1] = "price_cents"
     /\ last.kwargs[1][2].t = "int")
    => LET cents == last.kwargs[1][2].v IN
       /\ (0 <= cents /\ cents <= 99) => last.err = "ok"
       /\ cents \in {0 - 1, 100} => last.err = "ArithmeticError"

(***************************************************************************)
(* check_field and check_series of the schema tests' description as        *)
(* functions of their arguments.                                           *)
(***************************************************************************)
\* Values checked under each field name: numbers and text on, next to and
\* away from the edges of the limits, and a value of the wrong type.
TestValues(field_name) ==
    CASE field_name = "number" ->
            {IntVal(99), IntVal(100), IntVal(199), IntVal(200), IntVal(201),
             IntVal(49999), IntVal(50000), IntVal(50001), IntVal(99999),
             IntVal(100000), StrVal("a")}
      [] field_name = "text" ->
            {StrVal(""), StrVal("12"), StrVal("abc"), StrVal("abcd"),
             StrVal("abcdefghi"), StrVal("abcdefghij"), StrVal("abcdefghijk"),
             IntVal(1)}
      [] OTHER -> {IntVal(200), StrVal("123")}

TestFields == {"number", "text", "digits"}

\* test_info.check_field(value, field_name)
CheckField ==
    /\ Idle
    /\ calls' = calls
    /\ \E field_name \in TestFields : \E value \in TestValues(field_name) :
        /\ last' = [NoCall EXCEPT
                       !.op = "check_field",
                       !.kwargs = <<<<field_name, value>>>>,
                       !.err = check_field(TEST_INFO, value, field_name)]
        /\ UNCHANGED <<file, prev>>

\* Key lists of the rows checked: the schema's columns in both orders, one
\* column short, one column over, and other columns.
SeriesLayouts ==
    {<<"number", "text">>, <<"text", "number">>, <<"number">>, <<"text">>,
     <<"number", "text", "extra_column">>, <<"incorrect_column">>,
     <<"digits", "text">>}

SeriesOf(cols) ==
    {r \in [Range(cols) -> UNION {TestValues(c) : c \in Range(cols)}] :
        \A c \in Range(cols) : r[c] \in TestValues(c)}

\* test_info.check_series(pd.Series(row))
CheckSeries ==
    /\ Idle
    /\ calls' = calls
    /\ \E cols \in SeriesLayouts : \E row \in SeriesOf(cols) :
        /\ last' = [NoCall EXCEPT
                       !.op = "check_series",
                       !.records = [cols |-> cols, rows |-> <<row>>],
                       !.err = check_series(TEST_INFO, cols, row)]
        /\ UNCHANGED <<file, prev>>

NextTestInfo ==
    \/ CheckField
    \/ CheckSeries
    \/ Return

SpecTestInfo == Init /\ [][NextTestInfo]_vars

\* The value has the kind its column's type takes.
TypeCorrect(ti, field_name, value) ==
    IF ti.types[field_name] = "string" THEN value.t = "str" ELSE IsNum(value)

\* The value is inside the closed intervals its column's limits give.
InLimits(ti, field_name, value) ==
    /\ field_name \in DOMAIN ti.character_limits
       => /\ ti.character_limits[field_name].start <= StrLen(value)
          /\ StrLen(value) <= ti.character_limits[field_name].stop
    /\ field_name \in DOMAIN ti.numeric_limits
       => /\ ti.numeric_limits[field_name].start <= value.v
          /\ value.v <= ti.numeric_limits[field_name].stop

\* C19: check_field accepts a type-correct value of a schema column exactly
\* when its length as text lies in the column's character limit and its
\* magnitude in the column's numeric limit, both ends included; otherwise
\* it raises ArithmeticError.
C19_LimitsInclusive ==
    (/\ last.op = "check_field"
     /\ last.kwargs[1][1] \in Range(TEST_INFO.names)
     /\ TypeCorrect(TEST_INFO, last.kwargs[1][1], last.kwargs[1][2]))
    => /\ last.err = "ok"
          <=> InLimits(TEST_INFO, last.kwargs[1][1], last.kwargs[1][2])
       /\ last.err \in {"ok", "ArithmeticError"}

\* Text as long as the upper character limit is accepted.
C19_Witness ==
    /\ last.op = "check_field"
    /\ last.kwargs[1][1] = "text"
    /\ last.kwargs[1][2].t = "str"
    /\ StrLen(last.kwargs[1][2]) = TEST_INFO.character_limits["text"].stop
    /\ last.err = "ok"

\* A number whose length is within the character limit is rejected by the
\* numeric limit alone.
C19_WitnessNumericAlone ==
    /\ last.op = "check_field"
    /\ last.kwargs[1][1] = "number"
    /\ last.kwargs[1][2] = IntVal(199)
    /\ check_character_limit(TEST_INFO, "number", IntVal(199)) = "ok"
    /\ last.err = "ArithmeticError"

\* C20: check_series raises KeyError for a row whose keys are not exactly
\* the schema's columns (fewer, more, or others), whatever its values are;
\* a row with exactly the schema's columns gets the error of its first
\* field, in the row's order, that fails check_field, and none if no field
\* fails.
C20_ExactColumnMatch ==
    last.op = "check_series" =>
        LET cols == last.records.cols
            row == last.records.rows[1]
            bad == {i \in DOMAIN cols :
                       check_field(TEST_INFO, row[cols[i]], cols[i]) # "ok"}
        IN /\ Range(cols) # Range(TEST_INFO.names) => last.err = "KeyError"
           /\ (Range(cols) = Range(TEST_INFO.names) /\ bad = {})
              => last.err = "ok"
           /\ (Range(cols) = Range(TEST_INFO.names) /\ bad # {})
              => LET first == CHOOSE i \in bad : \A j \in bad : i <= j IN
                 last.err = check_field(TEST_INFO, row[cols[first]], cols[first])

\* A row with one of the schema's columns only, holding a value of the
\* wrong type.
C20_Witness ==
    /\ last.op = "check_series"
    /\ last.records.cols = <<"number">>
    /\ last.records.rows[1]["number"] = StrVal("a")
    /\ last.err = "KeyError"

\* Rows with one column more than the schema and with none of its columns.
C20_WitnessSuperset ==
    /\ last.op = "check_series"
    /\ Range(TEST_INFO.names) \subseteq Range(last.records.cols)
    /\ Range(TEST_INFO.names) # Range(last.records.cols)
    /\ last.err = "KeyError"

(***************************************************************************)
(* Construction of a TableInfo over the schema tests' schema, as a         *)
(* function of the two dicts of limits.                                    *)
(***************************************************************************)
\* Keys of the limit dicts: the schema's columns and one that is not.
LimitKeys == {"number", "text", "missing column"}

LimitRanges == {[start |-> 1, stop |-> 1], [start |-> 3, stop |-> 5]}

\* Every dict from some of the keys to a range.
LimitDicts == UNION {[keys -> LimitRanges] : keys \in SUBSET LimitKeys}

Construct ==
    /\ Idle
    /\ calls' = calls
    /\ \E character_limits \in LimitDicts : \E numeric_limits \in LimitDicts :
        LET r == NewTableInfo("test", TEST_INFO.names, TEST_INFO.types,
                              character_limits, numeric_limits)
        IN /\ last' = [NoCall EXCEPT
                          !.op = "TableInfo",
                          !.kwargs = <<<<"character_limits", character_limits>>,
                                       <<"numeric_limits", numeric_limits>>>>,
                          !.err = r.err,
                          !.ret = r.ret]
           /\ UNCHANGED <<file, prev>>

NextConstruct ==
    \/ Construct
    \/ Return

SpecConstruct == Init /\ [][NextConstruct]_vars

\* C21: constructing a TableInfo one of whose character or numeric limits
\* is keyed by a name that is not a column of its schema raises KeyError
\* and yields no object; every object that is constructed has all its
\* limits on columns of its schema.
C21_SchemaSelfValidation ==
    last.op = "TableInfo" =>
        LET character_limits == last.kwargs[1][2]
            numeric_limits == last.kwargs[2][2]
            known == Range(TEST_INFO.names)
        IN /\ ~(DOMAIN character_limits \subseteq known
                /\ DOMAIN numeric_limits \subseteq known)
              => (last.err = "KeyError" /\ last.ret = "none")
           /\ last.err = "ok"
              => /\ DOMAIN last.ret.character_limits \subseteq Range(last.ret.names)
                 /\ DOMAIN last.ret.numeric_limits \subseteq Range(last.ret.names)
                 /\ last.ret.character_limits = character_limits
                 /\ last.ret.numeric_limits = numeric_limits

\* A construction whose character limits are all on schema columns and
\* whose numeric limits have a key that is not.
C21_Witness ==
    /\ last.op = "TableInfo"
    /\ DOMAIN last.kwargs[1][2] = {"number", "text"}
    /\ "missing column" \in DOMAIN last.kwargs[2][2]
    /\ last.err = "KeyError"

\* A construction that succeeds with limits of both kinds.
C21_WitnessConstructed ==
    /\ last.op = "TableInfo"
    /\ last.err = "ok"
    /\ DOMAIN last.kwargs[1][2] # {}
    /\ DOMAIN last.kwargs[2][2] # {}

(***************************************************************************)
(* manager.py, provider.py: the calls that read the members table.         *)
(***************************************************************************)
\* df.iloc[:, 0].max()
MaxOf(col) == CHOOSE x \in Range(col) : \A y \in Range(col) : y.v <= x.v

\* generate_unique_id: 1000000000 for a table without rows, else the
\* largest value of the first column plus one; IndexError when that largest
\* value is 9999999999 or more (written here with the last digit split off,
\* n >= 9999999999 being n div 10 > 999999999, or n div 10 = 999999999 and
\* n mod 10 = 9).
generate_unique_id(ti, f) ==
    LET ld == load_records_from_file(ti, <<>>, <<>>, <<>>, f)
        id == FirstColumn(ld.records)
        max_id == MaxOf(id).v
    IN IF ld.err # "ok" THEN [err |-> ld.err, ret |-> 0]
       ELSE IF ld.records.rows = <<>> THEN [err |-> "ok", ret |-> 1000000000]
       ELSE IF \E i \in DOMAIN id : ~IsNum(id[i])
            THEN [err |-> "TypeError", ret |-> 0]
       ELSE IF \/ max_id \div 10 > 999999999
               \/ (max_id \div 10 = 999999999 /\ max_id % 10 = 9)
            THEN [err |-> "IndexError", ret |-> 0]
       ELSE [err |-> "ok", ret |-> max_id + 1]

\* Member ids of 9 digits: the smallest, one in between and the largest.
MemberIds == {100000000, 123456789, 999999999}

MemberRows ==
    {[member_id |-> IntVal(i), name |-> StrVal("a"), address |-> StrVal("a"),
      city |-> StrVal("a"), state |-> StrVal("OR"), zipcode |-> IntVal(97201),
      suspended |-> BoolVal(s)] : i \in MemberIds, s \in BOOLEAN}

\* The members tables: absent, or up to MaxRows members with distinct ids.
MemberTables ==
    {NoFile} \cup
    {[exists |-> TRUE, cols |-> MEMBER_INFO.names, rows |-> rows] :
        rows \in {r \in UNION {[1..n -> MemberRows] : n \in 0..MaxRows} :
                     \A i, j \in DOMAIN r :
                         i # j => r[i].member_id # r[j].member_id}}

InitMembers ==
    /\ file \in MemberTables
    /\ prev = file
    /\ last = NoCall
    /\ calls = [p \in Procs |-> NoWork]

GenerateUniqueId ==
    /\ Idle
    /\ calls' = calls
    /\ LET r == generate_unique_id(MEMBER_INFO, file) IN
       last' = [NoCall EXCEPT !.op = "generate_unique_id", !.err = r.err,
                              !.ret = r.ret]
    /\ file' = file
    /\ prev' = file

\* The frame with each row's index label kept beside its cells: read_parquet
\* labels the rows 0, 1, 2, ... and boolean indexing keeps a row's label.
WithIndex(records) ==
    [cols |-> records.cols,
     rows |-> [i \in DOMAIN records.rows |->
                  [c \in Range(records.cols) \cup {"index"} |->
                      IF c = "index" THEN IntVal(i - 1)
                      ELSE records.rows[i][c]]]]

\* load_records_from_file, with the index labels of the rows it returns.
load_records_with_index(ti, eq_cols, lt_cols, gt_cols, f) ==
    LET ld == load_all_records_from_file(ti, f)
        e == apply_filter(WithIndex(ld.records), eq_cols, "eq", ti)
        l == apply_filter(e.records, lt_cols, "lt", ti)
        g == apply_filter(l.records, gt_cols, "gt", ti)
    IN IF ld.err # "ok" THEN ld
       ELSE IF e.err # "ok" THEN e
       ELSE IF l.err # "ok" THEN l
       ELSE g

\* records.at[label, col]: the cell of the row labelled label; KeyError when
\* no row has that label.
At(records, label, col) ==
    LET hits == {i \in DOMAIN records.rows : records.rows[i]["index"] = IntVal(label)}
    IN IF hits = {} THEN [err |-> "KeyError", value |-> NullVal]
       ELSE [err |-> "ok", value |-> records.rows[CHOOSE i \in hits : TRUE][col]]

\* check_in_member with member_id the number prompt_int returned (NullVal
\* for None): what is printed, or the error raised.
check_in_member(member_id, f) ==
    LET query_response == load_records_with_index(
                              MEMBER_INFO, <<<<"member_id", member_id>>>>,
                              <<>>, <<>>, f)
        suspended == At(query_response.records, 0, "suspended")
    IN IF query_response.err # "ok"
       THEN [err |-> query_response.err, ret |-> "none"]
       ELSE IF query_response.records.rows = <<>>
       THEN [err |-> "ok", ret |-> "Invalid"]
       ELSE IF suspended.err # "ok" THEN [err |-> suspended.err, ret |-> "none"]
       ELSE IF suspended.value = BoolVal(TRUE)
       THEN [err |-> "ok", ret |-> "Suspended"]
       ELSE [err |-> "ok", ret |-> "Valid"]

\* What the user enters at the prompt for a member id: the ids that may be
\* stored, one that never is, and nothing (the prompt is aborted).
EnteredIds == {IntVal(i) : i \in MemberIds \cup {555555555}} \cup {NullVal}

CheckInMember ==
    /\ Idle
    /\ calls' = calls
    /\ \E member_id \in EnteredIds :
        LET r == check_in_member(member_id, file) IN
        last' = [NoCall EXCEPT !.op = "check_in_member", !.index = member_id,
                               !.err = r.err, !.ret = r.ret]
    /\ file' = file
    /\ prev' = file

NextMembers ==
    \/ GenerateUniqueId
    \/ CheckInMember
    \/ Return

SpecMembers == InitMembers /\ [][NextMembers]_vars

\* C22: an id generate_unique_id returns has exactly 9 digits and is the
\* member id of no stored row, for a table with or without rows.
C22_UniqueNineDigitId ==
    (last.op = "generate_unique_id" /\ last.err = "ok")
    => /\ Digits(last.ret) = 9
       /\ ~HasIndex(MEMBER_INFO, file, IntVal(last.ret))

\* C23: check_in_member raises nothing and prints Invalid when no stored
\* member has the entered id, Suspended when the member with that id is
\* suspended, Valid when it is not, wherever in the table the member is.
C23_CheckInStatus ==
    last.op = "check_in_member" =>
        /\ last.err = "ok"
        /\ ~HasIndex(MEMBER_INFO, file, last.index) <=> last.ret = "Invalid"
        /\ \A i \in DOMAIN file.rows :
              PyEq(file.rows[i].member_id, last.index)
              => last.ret = (IF file.rows[i].suspended = BoolVal(TRUE)
                             THEN "Suspended" ELSE "Valid")

(***************************************************************************)
(* provider.py: record_service_billing_entry.  The provider enters a       *)
(* member id, a provider id, a service date, a service code, a             *)
(* confirmation and a comment; a prompt that is aborted gives None.  file  *)
(* is the service log here; the three directories the entry refers to are  *)
(* fixed tables.                                                           *)
(***************************************************************************)

\* The members directory: one member in good standing, one suspended.
MEMBERS ==
    [exists |-> TRUE, cols |-> MEMBER_INFO.names,
     rows |-> <<[member_id |-> IntVal(100000000), name |-> StrVal("a"),
                 address |-> StrVal("a"), city |-> StrVal("a"),
                 state |-> StrVal("OR"), zipcode |-> IntVal(97201),
                 suspended |-> BoolVal(FALSE)],
                [member_id |-> IntVal(123456789), name |-> StrVal("b"),
                 address |-> StrVal("b"), city |-> StrVal("b"),
                 state |-> StrVal("OR"), zipcode |-> IntVal(97201),
                 suspended |-> BoolVal(TRUE)]>>]

\* The user directory: one manager (type 0) and one provider (type 1).
USERS ==
    [exists |-> TRUE, cols |-> USER_INFO.names,
     rows |-> <<[id |-> IntVal(333333333), type |-> IntVal(0),
                 name |-> StrVal("m"), address |-> StrVal("a"),
                 city |-> StrVal("a"), state |-> StrVal("OR"),
                 zipcode |-> IntVal(97201), password_hash |-> BytesVal("h")],
                [id |-> IntVal(222222222), type |-> IntVal(1),
                 name |-> StrVal("p"), address |-> StrVal("a"),
                 city |-> StrVal("a"), state |-> StrVal("OR"),
                 zipcode |-> IntVal(97201), password_hash |-> BytesVal("h")]>>]

\* The provider directory: one service.
SERVICES ==
    [exists |-> TRUE, cols |-> PROVIDER_DIRECTORY_INFO.names,
     rows |-> <<[service_id |-> IntVal(555555), service_name |-> StrVal("s"),
                 price_dollars |-> IntVal(100), price_cents |-> IntVal(50)]>>]

\* value in column.values
In(value, column) == \E i \in DOMAIN column : PyEq(column[i], value)

\* The one-row frame record_service_billing_entry builds: the entry time is
\* the datetime object datetime.now() returned, the service date the text
\* strftime made of the date entered.
BillingRecord(now, provider_id, member_id, service_code, comments) ==
    [cols |-> SERVICE_LOG_INFO.names,
     rows |-> <<[entry_datetime_utc |-> DateVal(now),
                 service_date_utc |-> StrVal("01-02-2023"),
                 provider_id |-> provider_id, member_id |-> member_id,
                 service_id |-> service_code, comments |-> comments]>>]

NoRecord == [cols |-> <<>>, rows |-> <<>>]

\* record_service_billing_entry on the service log f: what is printed last
\* (ret), the error raised (err), the frame handed to add_records_to_file
\* (record, NoRecord when the call is not reached) and the log afterwards.
record_service_billing_entry(member_id, provider_id, service_date, service_code, confirmation, comments, now, f) ==
    LET members_df == load_records_from_file(MEMBER_INFO, <<>>, <<>>, <<>>, MEMBERS)
        providers_df == load_records_from_file(USER_INFO, <<>>, <<>>, <<>>, USERS)
        services_df == load_records_from_file(PROVIDER_DIRECTORY_INFO,
                                              <<>>, <<>>, <<>>, SERVICES)
        record == BillingRecord(now, provider_id, member_id, service_code, comments)
        added == add_records_to_file(SERVICE_LOG_INFO, record, f)
        Out(e, r) == [err |-> e, ret |-> r, record |-> NoRecord, file |-> f]
    IN IF members_df.err # "ok" THEN Out(members_df.err, "none")
       ELSE IF providers_df.err # "ok" THEN Out(providers_df.err, "none")
       ELSE IF ~In(member_id, Column(members_df.records, "member_id"))
       THEN Out("ok", "Invalid Member ID or Member Suspended")
       ELSE IF ~In(provider_id, Column(providers_df.records, "id"))
       THEN Out("ok", "Invalid Provider ID")
       ELSE IF service_date = NullVal
       THEN Out("ok", "Invalid Date Format")
       ELSE IF services_df.err # "ok" THEN Out(services_df.err, "none")
       ELSE IF ~In(service_code, Column(services_df.records, "service_id"))
       THEN Out("ok", "Invalid Service Code")
       ELSE IF confirmation \notin {StrVal("y"), StrVal("yes")}
       THEN Out("ok", "Service Not Confirmed")
       ELSE [err |-> added.err,
             ret |-> IF added.err = "ok"
                     THEN "Service Billing Entry Recorded Successfully"
                     ELSE "none",
             record |-> record, file |-> added.file]

\* What the provider may enter at each prompt.
EnteredProviderIds == {IntVal(222222222), IntVal(444444444), NullVal}
EnteredDates == {DateVal(1), NullVal}
EnteredServiceCodes == {IntVal(555555), IntVal(999999)}
EnteredConfirmations == {StrVal("y"), StrVal("yes"), StrVal("no"), NullVal}
EnteredComments == {StrVal("ok"), NullVal}

\* One call of record_service_billing_entry; the entries made at the prompts
\* are kept in last.kwargs, the frame handed on in last.records.
RecordServiceBillingEntry ==
    /\ Idle
    /\ calls' = calls
    /\ \E member_id \in EnteredIds, provider_id \in EnteredProviderIds,
          service_date \in EnteredDates, service_code \in EnteredServiceCodes,
          confirmation \in EnteredConfirmations, comments \in EnteredComments :
        LET r == record_service_billing_entry(
                     member_id, provider_id, service_date, service_code,
                     confirmation, comments, Len(file.rows) + 1, file)
        IN /\ last' = [NoCall EXCEPT
                          !.op = "record_service_billing_entry",
                          !.kwargs = <<member_id, provider_id, service_date,
                                       service_code, confirmation, comments>>,
                          !.records = r.record, !.err = r.err, !.ret = r.ret]
           /\ file' = r.file
    /\ prev' = file

NextBilling ==
    \/ RecordServiceBillingEntry
    \/ Return

SpecBilling == Init /\ [][NextBilling]_vars

\* The member entered is in the members directory and is not suspended.
MemberInGoodStanding(member_id) ==
    \E i \in DOMAIN MEMBERS.rows :
        /\ MEMBERS.rows[i].member_id = member_id
        /\ MEMBERS.rows[i].suspended = BoolVal(FALSE)

RECURSIVE prompt_int(_, _, _, _)
prompt_int(numeric_limit, inputs, printed, read) ==
    IF inputs = <<>>
    THEN [err |-> "EOFError", ret |-> NullVal, printed |-> printed, read |-> read]
    ELSE LET result == Head(inputs) IN
         IF result = NullVal
         THEN [err |-> "ok", ret |-> NullVal, printed |-> printed + 1,
               read |-> read + 1]
         ELSE IF result.t # "int"
                 \/ ~(numeric_limit.start <= result.v /\ result.v <= numeric_limit.stop)
         THEN prompt_int(numeric_limit, Tail(inputs), printed + 1, read + 1)
         ELSE [err |-> "ok", ret |-> result, printed |-> printed,
               read |-> read + 1]

\* prompt_menu_options(message, choices): the assert on choices, the message
\* and one line per choice, then prompt_int within 1..len(choices); returns
\* (selection - 1, choices[selection - 1]), or None when aborted.
prompt_menu_options(choices, inputs) ==
    LET selection == prompt_int([start |-> 1, stop |-> Len(choices)], inputs,
                                1 + Len(choices), 0)
    IN IF choices = <<>>
       THEN [err |-> "AssertionError", ret |-> NullVal, printed |-> 0, read |-> 0]
       ELSE IF selection.err # "ok" \/ selection.ret = NullVal
       THEN selection
       ELSE [selection EXCEPT
                !.ret = <<selection.ret.v - 1, choices[selection.ret.v]>>]

MenuChoices == {<<>>, <<"A">>, <<"A", "B">>}
MenuEntries == {IntVal(0), IntVal(1), IntVal(2), IntVal(3), StrVal("x"), NullVal}
MenuInputs == [1..1 -> MenuEntries] \cup [1..2 -> MenuEntries]

\* One call of prompt_menu_options; last.kwargs keeps the choices,
\* last.ret what was returned, printed and read.
PromptMenuOptions ==
    /\ Idle
    /\ calls' = calls
    /\ \E choices \in MenuChoices, inputs \in MenuInputs :
        LET r == prompt_menu_options(choices, inputs) IN
        last' = [NoCall EXCEPT !.op = "prompt_menu_options",
                               !.kwargs = <<choices, inputs>>,
                               !.err = r.err,
                               !.ret = [value |-> r.ret, printed |-> r.printed,
                                        read |-> r.read]]
    /\ file' = file
    /\ prev' = file

NextMenu ==
    \/ PromptMenuOptions
    \/ Return

SpecMenu == Init /\ [][NextMenu]_vars

\* C25: prompt_menu_options with an empty list of choices raises ValueError,
\* and has printed nothing and read nothing when it does.
C25_EmptyChoicesValueError ==
    (last.op = "prompt_menu_options" /\ last.kwargs[1] = <<>>)
    => /\ last.err = "ValueError"
       /\ last.ret.printed = 0
       /\ last.ret.read = 0

(***************************************************************************)
(* login.py.  file is the users table here.  A read of the table may fail *)
(* with ArrowIOError whatever the table holds: io says, for one read,     *)
(* whether the file could be accessed.                                     *)
(***************************************************************************)

\* bcrypt.hashpw / bcrypt.checkpw: the hash of a password is bytes that
\* differ from the password; checkpw compares the hash of the password
\* entered with the stored one.
hashpw(password) == BytesVal("$2b$" \o password)
checkpw(password, hashed) == hashpw(password) = hashed

\* load_records_from_file(USER_INFO, eq_cols={"id": user_id}) on a file that
\* can (io) or cannot be accessed.
load_user(user_id, f, io) ==
    IF ~io THEN [err |-> "ArrowIOError", records |-> EmptyFrame(USER_INFO)]
    ELSE load_records_from_file(USER_INFO, <<<<"id", user_id>>>>, <<>>, <<>>, f)

\* secure_password_verification: False for an unknown user and when the
\* table cannot be accessed, else whether the password matches.
secure_password_verification(user_id, password, f, io) ==
    LET pw == load_user(user_id, f, io) IN
    IF pw.err = "ArrowIOError" THEN [err |-> "ok", ret |-> FALSE]
    ELSE IF pw.err # "ok" THEN [err |-> pw.err, ret |-> FALSE]
    ELSE IF pw.records.rows = <<>> THEN [err |-> "ok", ret |-> FALSE]
    ELSE [err |-> "ok",
          ret |-> checkpw(password, pw.records.rows[1]["password_hash"])]

\* user_type_authorization: the type of the first row found, False when the
\* table cannot be accessed; IndexError (iloc[0]) when no row is found.
user_type_authorization(user_id, f, io) ==
    LET ld == load_user(user_id, f, io) IN
    IF ld.err = "ArrowIOError" THEN [err |-> "ok", ret |-> BoolVal(FALSE)]
    ELSE IF ld.err # "ok" THEN [err |-> ld.err, ret |-> NullVal]
    ELSE IF "type" \notin Range(ld.records.cols)
    THEN [err |-> "KeyError", ret |-> NullVal]
    ELSE IF ld.records.rows = <<>> THEN [err |-> "IndexError", ret |-> NullVal]
    ELSE [err |-> "ok", ret |-> ld.records.rows[1]["type"]]

\* match subject: case n: a literal pattern matches when subject == n, and
\* in Python False == 0 and True == 1.
MatchesLiteral(subject, n) ==
    \/ IsNum(subject) /\ subject.v = n
    \/ subject.t = "bool" /\ (IF subject.v THEN 1 ELSE 0) = n

\* login_menu once the user is verified: the menu the match opens.
OpenMenu(user_id, f, io) ==
    LET ty == user_type_authorization(user_id, f, io) IN
    IF ty.err # "ok"
    THEN [err |-> ty.err, menu |-> "none", verified |-> TRUE, type |-> ty.ret]
    ELSE [err |-> "ok", verified |-> TRUE, type |-> ty.ret,
          menu |-> IF MatchesLiteral(ty.ret, 0) THEN "manager_menu"
                   ELSE IF MatchesLiteral(ty.ret, 1) THEN "show_provider_menu"
                   ELSE "none"]

\* login_menu: attempts are the pairs of user id and password entered, one
\* for each turn of the loop, with the outcome of that turn's table access;
\* NullVal stands for a prompt answered with Ctrl+C, and a user who enters
\* nothing more has given up.  io is the access of the type lookup.
RECURSIVE login_menu(_, _, _)
login_menu(attempts, f, io) ==
    LET NoMenu(e) == [err |-> e, menu |-> "none", verified |-> FALSE,
                      type |-> NullVal]
    IN IF attempts = <<>> THEN NoMenu("ok")
       ELSE LET a == Head(attempts)
                user_verified == secure_password_verification(
                                     a.user_id, a.password.v, f, a.io)
            IN IF a.user_id = NullVal \/ a.password = NullVal THEN NoMenu("ok")
               ELSE IF user_verified.err # "ok" THEN NoMenu(user_verified.err)
               ELSE IF ~user_verified.ret THEN login_menu(Tail(attempts), f, io)
               ELSE OpenMenu(a.user_id, f, io)

\* The users tables: absent; a manager and a provider; and these with a
\* user whose type is missing.
UserRow(id, type, password) ==
    [id |-> IntVal(id), type |-> type, name |-> StrVal("n"),
     address |-> StrVal("a"), city |-> StrVal("c"), state |-> StrVal("OR"),
     zipcode |-> IntVal(97201), password_hash |-> hashpw(password)]

UserTables ==
    {NoFile,
     [exists |-> TRUE, cols |-> USER_INFO.names,
      rows |-> <<UserRow(940672921, IntVal(0), "password1"),
                 UserRow(265608022, IntVal(1), "password2")>>],
     [exists |-> TRUE, cols |-> USER_INFO.names,
      rows |-> <<UserRow(940672921, IntVal(0), "password1"),
                 UserRow(265608022, IntVal(1), "password2"),
                 UserRow(123456789, NullVal, "password3")>>]}

InitLogin ==
    /\ file \in UserTables
    /\ prev = file
    /\ last = NoCall
    /\ calls = [p \in Procs |-> NoWork]

LoginIds == {IntVal(940672921), IntVal(265608022), IntVal(123456789), NullVal}
LoginPasswords == {StrVal("password1"), StrVal("password2"),
                   StrVal("password3"), NullVal}
LoginAttempts == [user_id : LoginIds, password : LoginPasswords, io : BOOLEAN]

\* One run of login_menu with one or two turns of the loop.
LoginMenu ==
    /\ Idle
    /\ calls' = calls
    /\ \E attempts \in [1..1 -> LoginAttempts] \cup [1..2 -> LoginAttempts],
          io \in BOOLEAN :
        LET r == login_menu(attempts, file, io) IN
        last' = [NoCall EXCEPT !.op = "login_menu",
                               !.kwargs = <<attempts, io>>,
                               !.err = r.err,
                               !.ret = [menu |-> r.menu, verified |-> r.verified,
                                        type |-> r.type]]
    /\ file' = file
    /\ prev' = file

NextLogin ==
    \/ LoginMenu
    \/ Return

SpecLogin == InitLogin /\ [][NextLogin]_vars

\* C26: login_menu opens a menu only after secure_password_verification
\* returned True; the manager menu only if the stored type of the user who
\* logged in is 0, the provider menu only if it is 1; when the type lookup
\* ends otherwise (unrecognised type, or the table cannot be accessed)
\* neither menu is opened.
C26_MenuMatchesStoredType ==
    last.op = "login_menu"
    => /\ last.ret.menu # "none" => last.ret.verified
       /\ last.ret.menu = "manager_menu" => last.ret.type = IntVal(0)
       /\ last.ret.menu = "show_provider_menu" => last.ret.type = IntVal(1)
       /\ (last.ret.verified /\ ~last.kwargs[2]) => last.ret.menu = "none"

\* C27: check_field reports in a fixed order.  A field name that is not in
\* the schema gives KeyError whatever the value; a value of the wrong type
\* for a schema field gives TypeError, also when its length or magnitude
\* breaks a limit; ArithmeticError is raised only for a value of the right
\* type.
C27_CheckFieldPrecedence ==
    last.op = "check_field"
    => LET field_name == last.kwargs[1][1]
           value == last.kwargs[1][2]
           known == field_name \in Range(TEST_INFO.names)
       IN /\ ~known => last.err = "KeyError"
          /\ (known /\ ~TypeCorrect(TEST_INFO, field_name, value))
             => last.err = "TypeError"
          /\ last.err = "ArithmeticError"
             => (known /\ TypeCorrect(TEST_INFO, field_name, value))

\* A value of the wrong type whose length also breaks the column's
\* character limit has been checked and reported as TypeError.
C27_Witness ==
    /\ last.op = "check_field"
    /\ last.kwargs[1][1] \in Range(TEST_INFO.names)
    /\ ~TypeCorrect(TEST_INFO, last.kwargs[1][1], last.kwargs[1][2])
    /\ ~InLimits(TEST_INFO, last.kwargs[1][1], last.kwargs[1][2])
    /\ last.err = "TypeError"

\* A value has been checked under a field name the schema does not have.
C27_WitnessUnknownField ==
    /\ last.op = "check_field"
    /\ last.kwargs[1][1] \notin Range(TEST_INFO.names)
    /\ last.err = "KeyError"

\* The call with the caller is one that may change the table: an add, an
\* update or an overwrite that raised nothing, or a remove that returned
\* True.
MayChange ==
    \/ last.op \in {"add", "update", "overwrite"} /\ last.err = "ok"
    \/ last.op = "remove" /\ last.err = "ok" /\ last.ret = TRUE

\* C28: the persisted table changes only through a successful add, a
\* successful update, a remove that returns True or a successful overwrite.
\* A load, and every call that raises or returns False, leaves the file as
\* it was; in particular an absent file stays absent.
C28_FrameEffect ==
    (~Idle /\ ~MayChange)
    => /\ file = prev
       /\ ~prev.exists => ~file.exists

\* A mutating call on a table with rows has raised.
C28_Witness ==
    /\ last.op \in {"add", "update", "overwrite", "remove"}
    /\ last.err # "ok"
    /\ prev.exists
    /\ prev.rows # <<>>

\* A remove has returned False.
C28_WitnessRemoveFalse ==
    /\ last.op = "remove"
    /\ last.err = "ok"
    /\ last.ret = FALSE

\* A call on an absent table has raised, or was a load.
C28_WitnessAbsent ==
    /\ ~prev.exists
    /\ \/ last.op = "load"
       \/ last.op \in {"add", "update", "overwrite", "remove"} /\ last.err # "ok"

\* A call that may change the table has changed it.
C28_WitnessChanged ==
    /\ MayChange
    /\ file # prev

\* The position of the first stored row of f whose index value equals
\* index, 0 when there is none.
TargetRow(ti, f, index) ==
    LET hits == {i \in DOMAIN f.rows : PyEq(f.rows[i][index_col(ti)], index)}
    IN IF hits = {} THEN 0 ELSE CHOOSE i \in hits : \A j \in hits : i <= j

\* C29: a successful update_record changes nothing but the named fields of
\* the targeted row: the table keeps its columns, its number of rows and
\* their order, and a cell that differs from before lies in the targeted
\* row and in a column the call named.
C29_UpdateFrame ==
    (last.op = "update" /\ last.err = "ok")
    => /\ file.exists = prev.exists
       /\ file.cols = prev.cols
       /\ Len(file.rows) = Len(prev.rows)
       /\ \A i \in DOMAIN prev.rows : \A c \in Range(prev.cols) :
             file.rows[i][c] # prev.rows[i][c]
             => /\ i = TargetRow(TI, prev, last.index)
                /\ \E k \in DOMAIN last.kwargs : last.kwargs[k][1] = c

\* An update of a row that is not the first of a table with several rows
\* has succeeded.
C29_Witness ==
    /\ last.op = "update"
    /\ last.err = "ok"
    /\ Len(prev.rows) >= 2
    /\ TargetRow(TI, prev, last.index) >= 2

\* C30: the duplicate-key check of add_records_to_file compares the
\* schema's index column, in whatever order the batch lists its columns.  A
\* schema-valid batch, its columns in schema order or not, is rejected with
\* ValueError when one of its index values is the index value of a stored
\* row, and is never rejected as a duplicate when all its index values are
\* new.
C30_DuplicateCheckByIndexColumn ==
    (last.op = "add" /\ SchemaValid(TI, last.records))
    => /\ IndexCollision(TI, last.records, prev) => last.err = "ValueError"
       /\ ~IndexCollision(TI, last.records, prev) => last.err # "ValueError"

====
